---- MODULE Spec2Model ----
(***************************************************************************)
(* Space Invaders (davrous/SpaceInvadersWithLeaderboardAzureReady):        *)
(* the client simulation core (game.js, entities.js, utils.js, main.js).   *)
(*                                                                         *)
(* Units.  Lengths are canvas pixels.  Times are milliseconds (the source  *)
(* keeps seconds as floats: 0.25 s is 250, 1.5 s is 1500).  Particle life  *)
(* and flash intensity are thousandths (1.0 is 1000).  A power-up's x and  *)
(* y are half pixels, because it spawns at enemy.y + enemy.height / 2 and  *)
(* an enemy is 25 high.                                                    *)
(***************************************************************************)
EXTENDS Integers, Sequences, FiniteSets, TLC

VARIABLES
    game,       \* the SpaceInvadersGame object (game.js constructor)
    loads,      \* loadLevel calls awaiting Utils.fetchLevelData, in call order
    initStep,   \* position of initializeGame: "load", "aiCheck" or "running"
    lastOp,     \* history: the kind of step that produced this state
    ticks,      \* history: the number of update() calls made so far
    lastDelta,  \* history: the deltaTime of the last gameLoop call
    wall,       \* a Wall object (Wall class specification)
    wallRet,    \* history: what the last Wall.takeDamage call returned
    wallHits,   \* history: the impacts of the takeDamage calls that returned true
    rect1,      \* first argument of Utils.checkCollision
    rect2,      \* second argument of Utils.checkCollision
    collides,   \* history: the results of the checkCollision calls made
    shieldHist, \* history: hits on the player and time since the last shield activation
    server,     \* LeaderboardService: the clock, the rateLimits map, the scores table
    client,     \* the page: signed in, online, the pending queue in localStorage
    reply,      \* history: the last answer of POST /api/v1/scores
    shotHist,   \* history: what the last Player.shoot call returned, and when
    clock       \* the time of the page and gameLoop's lastTime, with the pause history

vars == <<game, loads, initStep, lastOp, ticks, lastDelta, wall, wallRet, wallHits,
          rect1, rect2, collides, shieldHist, server, client, reply, shotHist, clock>>

wallVars == <<wall, wallRet, wallHits>>
rectVars == <<rect1, rect2, collides>>
boardVars == <<server, client, reply>>
harnessVars == <<wall, wallRet, wallHits, rect1, rect2, collides, shieldHist, boardVars,
                 shotHist, clock>>

----------------------------------------------------------------------------
(* Program constants *)

CanvasWidth == 800
CanvasHeight == 600

PlayerWidth == 40
PlayerHeight == 30
PlayerSpeed == 5
BaseShootCooldown == 250
RapidShootCooldown == 100
MaxInvulnerabilityTime == 2000

EnemyWidth == 30
EnemyHeight == 25
BossWidth == 40
BossHeight == 35
EnemySpacing == 50
EnemyStartX == 50
EnemyStartY == 80

BulletWidth == 4
BulletHeight == 8
PlayerBulletSpeed == 8
MultiShotSpread == 2

PowerUpSize == 25
PowerUpFall == 2
PowerUpLifetime == 10000
MaxLives == 5
InitialLives == 3
BonusPoints == 500

BlockSize == 4
PlayerImpactRadius == 6
EnemyImpactRadius == 8
DefaultWallHealth == 5

----------------------------------------------------------------------------
(* Arithmetic helpers *)

Max(a, b) == IF a >= b THEN a ELSE b
Min(a, b) == IF a <= b THEN a ELSE b
Abs(a) == IF a < 0 THEN -a ELSE a

\* Utils.clamp
Clamp(value, lo, hi) == Min(Max(value, lo), hi)

\* Array.prototype.splice(i, 1) with a 1-based index
RemoveAt(s, i) == SubSeq(s, 1, i - 1) \o SubSeq(s, i + 1, Len(s))

----------------------------------------------------------------------------
(* Entity.getBounds and Utils.checkCollision *)

getBounds(e) == [x |-> e.x, y |-> e.y, width |-> e.width, height |-> e.height]

checkCollisionTouching(r1, r2) ==
    /\ r1.x <= r2.x + r2.width
    /\ r1.x + r1.width >= r2.x
    /\ r1.y <= r2.y + r2.height
    /\ r1.y + r1.height >= r2.y

checkCollision(r1, r2) ==
    /\ r1.x < r2.x + r2.width
    /\ r1.x + r1.width > r2.x
    /\ r1.y < r2.y + r2.height
    /\ r1.y + r1.height > r2.y

\* Entity.checkCollision
EntityCollides(a, b) == checkCollision(getBounds(a), getBounds(b))

----------------------------------------------------------------------------
(* Wall *)

\* Wall.createBlocks: rows of cols blocks, row by row
createBlocks(width, height) ==
    LET cols == width \div BlockSize
        rows == height \div BlockSize
    IN  [i \in 1..(rows * cols) |->
            [x |-> ((i - 1) % cols) * BlockSize,
             y |-> ((i - 1) \div cols) * BlockSize,
             active |-> TRUE]]

\* Wall constructor
NewWall(x, y, width, height, health) ==
    [x |-> x, y |-> y, width |-> width, height |-> height, active |-> TRUE,
     maxHealth |-> health, health |-> health,
     blocks |-> createBlocks(width, height)]

\* distance < impactRadius, on the squares (Math.sqrt is monotone)
BlockInRadius(block, localX, localY, impactRadius) ==
    LET dx == (block.x + BlockSize \div 2) - localX
        dy == (block.y + BlockSize \div 2) - localY
    IN  dx * dx + dy * dy < impactRadius * impactRadius

ActiveBlocks(w) == Cardinality({i \in DOMAIN w.blocks : w.blocks[i].active})

WallDamagePerBlock(w, blocksDestroyed) == Max(0, w.health - blocksDestroyed)

WallDamage(w, blocksDestroyed) == Max(0, w.health - 1)

WallGoneBlocksOnly(w, activeBlocks) == activeBlocks = 0

WallGone(w, activeBlocks) == activeBlocks = 0 \/ w.health <= 0

\* takeDamage, lines 741-762: the active blocks whose centre is nearer to the
\* impact than the radius
BlocksHit(w, bulletX, bulletY, isPlayerBullet) ==
    {i \in DOMAIN w.blocks :
        /\ w.blocks[i].active
        /\ BlockInRadius(w.blocks[i], bulletX - w.x, bulletY - w.y,
                         IF isPlayerBullet THEN PlayerImpactRadius
                         ELSE EnemyImpactRadius)}

\* takeDamage, lines 758-760: block.active = false for the blocks hit
DestroyBlocks(w, hit) ==
    [w EXCEPT !.blocks = [i \in DOMAIN w.blocks |->
                             IF i \in hit THEN [w.blocks[i] EXCEPT !.active = FALSE]
                             ELSE w.blocks[i]]]

\* takeDamage, lines 767-771: the wall is destroyed
DeactivateIfGone(w) ==
    IF WallGone(w, ActiveBlocks(w)) THEN [w EXCEPT !.active = FALSE] ELSE w

\* takeDamage, lines 764-774, on the wall whose blocks have been destroyed
LoseHealth(w, blocksDestroyed) ==
    DeactivateIfGone([w EXCEPT !.health = WallDamage(w, blocksDestroyed)])

\* takeDamage with the health taken also when no block was hit
WallTakeDamageBlind(w, bulletX, bulletY, isPlayerBullet) ==
    IF w.health <= 0
    THEN [wall |-> [w EXCEPT !.active = FALSE], ret |-> FALSE]
    ELSE [wall |-> LoseHealth(
                      DestroyBlocks(w, BlocksHit(w, bulletX, bulletY, isPlayerBullet)),
                      Cardinality(BlocksHit(w, bulletX, bulletY, isPlayerBullet))),
          ret |-> TRUE]

\* Wall.takeDamage: the wall after the call and the value returned
WallTakeDamage(w, bulletX, bulletY, isPlayerBullet) ==
    IF w.health <= 0
    THEN [wall |-> [w EXCEPT !.active = FALSE], ret |-> FALSE]
    ELSE IF BlocksHit(w, bulletX, bulletY, isPlayerBullet) # {}
         THEN [wall |-> LoseHealth(
                           DestroyBlocks(w, BlocksHit(w, bulletX, bulletY, isPlayerBullet)),
                           Cardinality(BlocksHit(w, bulletX, bulletY, isPlayerBullet))),
               ret |-> TRUE]
         ELSE [wall |-> w, ret |-> FALSE]

----------------------------------------------------------------------------
(* Bullet *)

\* Bullet constructor (the trail only feeds the renderer)
NewBullet(x, y, vx, vy, isPlayerBullet) ==
    [x |-> x, y |-> y, width |-> BulletWidth, height |-> BulletHeight,
     vx |-> vx, vy |-> vy, isPlayerBullet |-> isPlayerBullet, active |-> TRUE]

\* Bullet.update: the step is per frame, not scaled by deltaTime
BulletUpdate(b) ==
    LET x2 == b.x + b.vx
        y2 == b.y + b.vy
    IN  [b EXCEPT !.x = x2, !.y = y2,
                  !.active = IF \/ y2 < -b.height
                                \/ y2 > CanvasHeight
                                \/ x2 < -b.width
                                \/ x2 > CanvasWidth
                             THEN FALSE ELSE b.active]

----------------------------------------------------------------------------
(* Player *)

\* Player constructor
NewPlayer(x, y) ==
    [x |-> x, y |-> y, width |-> PlayerWidth, height |-> PlayerHeight,
     active |-> TRUE,
     shootCooldown |-> 0, maxShootCooldown |-> BaseShootCooldown,
     invulnerable |-> FALSE, invulnerabilityTime |-> 0,
     hasShield |-> FALSE, shieldTime |-> 0,
     hasMultiShot |-> FALSE,
     hasAutoAim |-> FALSE, autoAimTime |-> 0,
     hasRapidFire |-> FALSE, rapidFireTime |-> 0]

\* the player the game creates in initializeGame and resetGame
FreshPlayer == NewPlayer(CanvasWidth \div 2 - 20, CanvasHeight - 50)

\* Player.update, lines 50-56
InvulnerabilityTimer(p, deltaTime) ==
    IF p.invulnerable
    THEN [p EXCEPT !.invulnerabilityTime = p.invulnerabilityTime - deltaTime,
                   !.invulnerable = IF p.invulnerabilityTime - deltaTime <= 0
                                    THEN FALSE ELSE TRUE]
    ELSE p

\* Player.update, lines 58-60
CooldownTimer(p, deltaTime) ==
    IF p.shootCooldown > 0
    THEN [p EXCEPT !.shootCooldown = p.shootCooldown - deltaTime]
    ELSE p

\* Player.update, the shield timer (lines 62-68)
ShieldTimer(p, deltaTime) ==
    IF p.hasShield
    THEN [p EXCEPT !.shieldTime = p.shieldTime - deltaTime,
                   !.hasShield = IF p.shieldTime - deltaTime <= 0 THEN FALSE ELSE TRUE]
    ELSE p

\* Player.update, lines 70-75
AutoAimTimer(p, deltaTime) ==
    IF p.hasAutoAim
    THEN [p EXCEPT !.autoAimTime = p.autoAimTime - deltaTime,
                   !.hasAutoAim = IF p.autoAimTime - deltaTime <= 0 THEN FALSE ELSE TRUE]
    ELSE p

\* Player.update, lines 77-83
RapidFireTimer(p, deltaTime) ==
    IF p.hasRapidFire
    THEN IF p.rapidFireTime - deltaTime <= 0
         THEN [p EXCEPT !.rapidFireTime = p.rapidFireTime - deltaTime,
                        !.hasRapidFire = FALSE,
                        !.maxShootCooldown = BaseShootCooldown]
         ELSE [p EXCEPT !.rapidFireTime = p.rapidFireTime - deltaTime]
    ELSE p

\* Player.update without its last line
KeepInBoundsNoClamp(p, canvasWidth) == p

\* Player.update, line 86
KeepInBounds(p, canvasWidth) == [p EXCEPT !.x = Clamp(p.x, 0, canvasWidth - p.width)]

\* Player.update
PlayerUpdate(p, deltaTime, canvasWidth) ==
    KeepInBounds(
        RapidFireTimer(
            AutoAimTimer(
                ShieldTimer(
                    CooldownTimer(InvulnerabilityTimer(p, deltaTime), deltaTime),
                    deltaTime),
                deltaTime),
            deltaTime),
        canvasWidth)

moveLeft(p) == [p EXCEPT !.x = p.x - PlayerSpeed]
moveRight(p) == [p EXCEPT !.x = p.x + PlayerSpeed]
canShootAlways(p) == TRUE

canShoot(p) == p.shootCooldown <= 0

\* floor of the square root, by bisection between lo and hi
RECURSIVE SqrtBetween(_, _, _)
SqrtBetween(n, lo, hi) ==
    IF lo >= hi
    THEN lo
    ELSE LET mid == (lo + hi + 1) \div 2
         IN  IF mid * mid <= n
             THEN SqrtBetween(n, mid, hi)
             ELSE SqrtBetween(n, lo, mid - 1)

ISqrt(n) == SqrtBetween(n, 0, Min(n, 8 * CanvasWidth))

\* a / b rounded to the nearest integer, b > 0
RoundDiv(a, b) ==
    IF a >= 0 THEN (2 * a + b) \div (2 * b) ELSE -((2 * (-a) + b) \div (2 * b))

\* The velocity of the auto-aim bullet: speed * (cos, sin) of atan2(dy, dx),
\* that is speed * (dx, dy) / |(dx, dy)|.  dx2 and dy2 are twice dx and dy (the
\* target is an enemy centre, a half pixel).  The source keeps the components
\* as floats; here each is rounded to the nearest pixel per frame.
AimVelocity(dx2, dy2) ==
    LET len == ISqrt(dx2 * dx2 + dy2 * dy2)
    IN  IF len = 0
        THEN [vx |-> PlayerBulletSpeed, vy |-> 0]
        ELSE [vx |-> RoundDiv(PlayerBulletSpeed * dx2, len),
              vy |-> RoundDiv(PlayerBulletSpeed * dy2, len)]

NoTarget == [has |-> FALSE, x2 |-> 0, y2 |-> 0]

\* Player.shoot: the player after the call and the bullets returned (the empty
\* sequence stands for null).  target.x2 and target.y2 are twice targetX and
\* targetY.
PlayerShoot(p, target) ==
    IF canShoot(p)
    THEN
      LET p2 == [p EXCEPT !.shootCooldown = p.maxShootCooldown]
          bx == p.x + p.width \div 2 - 2
          straight == NewBullet(bx, p.y, 0, -PlayerBulletSpeed, TRUE)
      IN  IF p.hasMultiShot
          THEN [player |-> p2,
                bullets |-> <<straight,
                              NewBullet(bx, p.y, -MultiShotSpread, -PlayerBulletSpeed, TRUE),
                              NewBullet(bx, p.y, MultiShotSpread, -PlayerBulletSpeed, TRUE)>>]
          ELSE IF p.hasAutoAim /\ target.has
          THEN LET v == AimVelocity(target.x2 - 2 * (p.x + p.width \div 2),
                                    target.y2 - 2 * p.y)
               IN  [player |-> p2,
                    bullets |-> <<NewBullet(bx, p.y, v.vx, v.vy, TRUE)>>]
          ELSE [player |-> p2, bullets |-> <<straight>>]
    ELSE [player |-> p, bullets |-> <<>>]

activatePowerUpAdds(p, type, duration) ==
    CASE type = "shield" -> [p EXCEPT !.hasShield = TRUE, !.shieldTime = p.shieldTime + duration]
      [] type = "multi-shot" -> [p EXCEPT !.hasMultiShot = TRUE]
      [] type = "auto-aim" -> [p EXCEPT !.hasAutoAim = TRUE,
                                       !.autoAimTime = p.autoAimTime + duration]
      [] type = "rapid-fire" -> [p EXCEPT !.hasRapidFire = TRUE,
                                         !.rapidFireTime = p.rapidFireTime + duration,
                                         !.maxShootCooldown = RapidShootCooldown]
      [] OTHER -> p

\* Player.activatePowerUp
activatePowerUp(p, type, duration) ==
    CASE type = "shield" -> [p EXCEPT !.hasShield = TRUE, !.shieldTime = duration]
      [] type = "multi-shot" -> [p EXCEPT !.hasMultiShot = TRUE]
      [] type = "auto-aim" -> [p EXCEPT !.hasAutoAim = TRUE, !.autoAimTime = duration]
      [] type = "rapid-fire" -> [p EXCEPT !.hasRapidFire = TRUE,
                                         !.rapidFireTime = duration,
                                         !.maxShootCooldown = RapidShootCooldown]
      [] OTHER -> p

ShieldKept(p) == p

\* Player.takeDamage, the shield branch (lines 182-186)
ShieldConsumed(p) == [p EXCEPT !.hasShield = FALSE, !.shieldTime = 0]

TakeDamageNoWindow(p) ==
    IF p.hasShield
    THEN [player |-> ShieldConsumed(p), ret |-> FALSE]
    ELSE [player |-> [p EXCEPT !.hasMultiShot = FALSE], ret |-> TRUE]

TakeDamageKeepsMultiShot(p) ==
    IF p.hasShield
    THEN [player |-> ShieldConsumed(p), ret |-> FALSE]
    ELSE IF ~p.invulnerable
         THEN [player |-> [p EXCEPT !.invulnerable = TRUE,
                                    !.invulnerabilityTime = MaxInvulnerabilityTime],
               ret |-> TRUE]
         ELSE [player |-> p, ret |-> FALSE]

\* Player.takeDamage: the player after the call and the value returned
PlayerTakeDamage(p) ==
    IF p.hasShield
    THEN [player |-> ShieldConsumed(p), ret |-> FALSE]
    ELSE
      LET p2 == IF p.hasMultiShot THEN [p EXCEPT !.hasMultiShot = FALSE] ELSE p
      IN  IF ~p2.invulnerable
          THEN [player |-> [p2 EXCEPT !.invulnerable = TRUE,
                                      !.invulnerabilityTime = MaxInvulnerabilityTime],
                ret |-> TRUE]
          ELSE [player |-> p2, ret |-> FALSE]

----------------------------------------------------------------------------
(* Enemy, PowerUp, Particle, Explosion *)

\* Enemy constructor and setTypeProperties: only the boss changes the size;
\* createEnemies overwrites speed, dropSpeed, shootFrequency and points
NewEnemy(x, y, type) ==
    [x |-> x, y |-> y,
     width |-> IF type = "boss" THEN BossWidth ELSE EnemyWidth,
     height |-> IF type = "boss" THEN BossHeight ELSE EnemyHeight,
     active |-> TRUE, type |-> type,
     speed |-> 1, dropSpeed |-> 20, points |-> 10]

\* moveDown without its assignment to y
moveDownNowhere(e) == e

\* Enemy.moveDown
moveDown(e) == [e EXCEPT !.y = e.y + e.dropSpeed]

\* Enemy.shoot
EnemyShoot(e) == NewBullet(e.x + e.width \div 2 - 2, e.y + e.height, 0, 3, FALSE)

\* PowerUp.setPowerUpProperties
PowerUpDuration(type) ==
    CASE type = "rapid-fire" -> 8000
      [] type = "shield" -> 10000
      [] type = "auto-aim" -> 12000
      [] OTHER -> 0

\* PowerUp constructor; x2 and y2 are twice the x and y passed
NewPowerUp(x2, y2, type) ==
    [x |-> x2, y |-> y2, width |-> 2 * PowerUpSize, height |-> 2 * PowerUpSize,
     active |-> TRUE, type |-> type, lifetime |-> PowerUpLifetime,
     duration |-> PowerUpDuration(type)]

PowerUpUpdateNoLifetime(u, deltaTime, canvasHeight) ==
    [u EXCEPT !.y = u.y + 2 * PowerUpFall, !.lifetime = u.lifetime - deltaTime,
              !.active = IF u.y + 2 * PowerUpFall > 2 * canvasHeight
                         THEN FALSE ELSE u.active]

\* PowerUp.update
PowerUpUpdate(u, deltaTime, canvasHeight) ==
    LET y2 == u.y + 2 * PowerUpFall
        life == u.lifetime - deltaTime
    IN  [u EXCEPT !.y = y2, !.lifetime = life,
                  !.active = IF y2 > 2 * canvasHeight \/ life <= 0
                             THEN FALSE ELSE u.active]

\* the bounds of an entity in the half pixels of PowerUp
Doubled(e) == [x |-> 2 * e.x, y |-> 2 * e.y,
               width |-> 2 * e.width, height |-> 2 * e.height]

\* Particle: position, velocity, colour and size only feed the renderer
NewParticle == [life |-> 1000, active |-> TRUE]

\* Particle.update: life -= decay * deltaTime * 60 with decay = 0.02
ParticleUpdate(q, deltaTime) ==
    LET life == q.life - (12 * deltaTime) \div 10
    IN  [q EXCEPT !.life = life, !.active = IF life <= 0 THEN FALSE ELSE q.active]

\* Utils.createParticles
createParticles(count) == [i \in 1..count |-> NewParticle]

ExplosionDuration == 500
ExplosionParticles == 12

\* Explosion constructor
NewExplosion ==
    [time |-> 0, active |-> TRUE, particles |-> createParticles(ExplosionParticles)]

\* Explosion.update
ExplosionUpdate(ex, deltaTime) ==
    LET t == ex.time + deltaTime
    IN  IF t >= ExplosionDuration
        THEN [ex EXCEPT !.time = t, !.active = FALSE]
        ELSE [ex EXCEPT !.time = t,
                        !.particles = SelectSeq(
                            [i \in DOMAIN ex.particles |->
                                ParticleUpdate(ex.particles[i], deltaTime)],
                            LAMBDA q : q.active)]

----------------------------------------------------------------------------
(* SpaceInvadersGame: construction and level loading *)

NoShake == [intensity |-> 0, duration |-> 0, time |-> 0]

\* Utils.createScreenShake (the offsets only feed the renderer)
createScreenShake(intensity, duration) ==
    [intensity |-> intensity, duration |-> duration, time |-> 0]

NoWalls == [given |-> FALSE, count |-> 0, width |-> 0, height |-> 0,
            health |-> 0, yPosition |-> 0]

\* levelData before the first level is installed (null in the source)
NoLevelData ==
    [level |-> 0, enemyRows |-> 0, enemyCols |-> 0, enemySpeed |-> 0,
     enemyDropSpeed |-> 0, enemyBulletSpeed |-> 0, enemyMoveDirection |-> 0,
     pointsPerEnemy |-> 0, enemyType |-> "basic", walls |-> NoWalls]

\* SpaceInvadersGame constructor followed by initializeGame up to its first
\* await: the player exists, the level-1 fetch is pending
NewGame ==
    [gameState |-> "menu",
     player |-> FreshPlayer,
     enemies |-> <<>>, bullets |-> <<>>, enemyBullets |-> <<>>,
     particles |-> <<>>, explosions |-> <<>>, powerUps |-> <<>>, walls |-> <<>>,
     score |-> 0, lives |-> InitialLives, currentLevel |-> 1,
     levelData |-> NoLevelData,
     enemiesKilled |-> 0, totalEnemies |-> 0,
     useAIGeneration |-> FALSE, aiEnabled |-> FALSE,
     screenShake |-> NoShake,
     flashEffect |-> [active |-> FALSE, intensity |-> 0],
     keys |-> {},
     enemyMoveTimer |-> 0, enemyMoveInterval |-> 1000, enemyDirection |-> 1]

\* createEnemies, line 599: Math.max(0.3, 1.5 - currentLevel * 0.1) seconds
MoveInterval(level) == Max(300, 1500 - level * 100)

\* createEnemies without line 597
createEnemiesKeepsKills(g) ==
    [g EXCEPT !.enemies =
                 [i \in 1..(g.levelData.enemyRows * g.levelData.enemyCols) |->
                     [NewEnemy(EnemyStartX + ((i - 1) % g.levelData.enemyCols) * EnemySpacing,
                               EnemyStartY + ((i - 1) \div g.levelData.enemyCols) * EnemySpacing,
                               g.levelData.enemyType)
                      EXCEPT !.speed = g.levelData.enemySpeed,
                             !.dropSpeed = g.levelData.enemyDropSpeed,
                             !.points = g.levelData.pointsPerEnemy]],
              !.totalEnemies = g.levelData.enemyRows * g.levelData.enemyCols,
              !.enemyDirection = g.levelData.enemyMoveDirection,
              !.enemyMoveInterval = MoveInterval(g.currentLevel)]

\* SpaceInvadersGame.createEnemies
createEnemies(g) ==
    LET d == g.levelData
        n == d.enemyRows * d.enemyCols
        enemy(i) ==
            LET row == (i - 1) \div d.enemyCols
                col == (i - 1) % d.enemyCols
            IN  [NewEnemy(EnemyStartX + col * EnemySpacing,
                          EnemyStartY + row * EnemySpacing, d.enemyType)
                 EXCEPT !.speed = d.enemySpeed,
                        !.dropSpeed = d.enemyDropSpeed,
                        !.points = d.pointsPerEnemy]
    IN  [g EXCEPT !.enemies = [i \in 1..n |-> enemy(i)],
                  !.totalEnemies = n,
                  !.enemiesKilled = 0,
                  !.enemyDirection = d.enemyMoveDirection,
                  !.enemyMoveInterval = MoveInterval(g.currentLevel)]

\* SpaceInvadersGame.createWalls
createWalls(g) ==
    LET c == IF g.levelData.walls.given THEN g.levelData.walls
             ELSE [given |-> TRUE, count |-> 4, width |-> 80, height |-> 60,
                   health |-> DefaultWallHealth, yPosition |-> CanvasHeight - 150]
        totalWidth == c.count * c.width
        spacing == (CanvasWidth - totalWidth) \div (c.count + 1)
    IN  [g EXCEPT !.walls =
            [i \in 1..c.count |->
                NewWall(spacing + (i - 1) * (c.width + spacing), c.yPosition,
                        c.width, c.height, c.health)]]

\* loadLevel after its await: the fetched data is installed (updateUI writes
\* the page only; applyAIEnhancements returns at once for level data without
\* specialMechanics, the only kind drawn here)
InstallLevel(g, data) == createWalls(createEnemies([g EXCEPT !.levelData = data]))

\* The fallback of Utils.fetchLevelData when the fetch fails
FetchFallback(levelNumber) ==
    [level |-> levelNumber, enemyRows |-> 5, enemyCols |-> 7, enemySpeed |-> 1,
     enemyDropSpeed |-> 20, enemyBulletSpeed |-> 2, enemyMoveDirection |-> 1,
     pointsPerEnemy |-> 10, enemyType |-> "basic", walls |-> NoWalls]

\* SpaceInvadersGame.resetGame up to the loadLevel call (the enemies, the move
\* timer, the direction and the interval are left as they are)
resetGameKeepsShots(g) ==
    [g EXCEPT !.score = 0, !.lives = InitialLives, !.currentLevel = 1,
              !.particles = <<>>, !.explosions = <<>>, !.walls = <<>>,
              !.player = FreshPlayer]

resetGame(g) ==
    [g EXCEPT !.score = 0, !.lives = InitialLives, !.currentLevel = 1,
              !.bullets = <<>>, !.enemyBullets = <<>>, !.particles = <<>>,
              !.explosions = <<>>, !.powerUps = <<>>, !.walls = <<>>,
              !.player = FreshPlayer]

\* startGame and restartGame have the same body
restartGame(g) == resetGame([g EXCEPT !.gameState = "playing"])

\* SpaceInvadersGame.pauseGame
pauseGame(g) == [g EXCEPT !.gameState = "paused"]

\* SpaceInvadersGame.togglePause
togglePause(g) ==
    IF g.gameState = "playing" THEN pauseGame(g)
    ELSE IF g.gameState = "paused"
         THEN [g EXCEPT !.gameState = "playing"]
         ELSE g

----------------------------------------------------------------------------
(* SpaceInvadersGame: one simulation tick *)

ClosestEnemyIsFirst(g) == 1

\* playerShoot, lines 856-865: forEach with a strict <, so the first enemy at
\* the least horizontal distance from the player's centre (in half pixels)
ClosestEnemy(g) ==
    CHOOSE i \in DOMAIN g.enemies :
        /\ \A j \in DOMAIN g.enemies :
              Abs(2 * g.enemies[i].x + g.enemies[i].width - (2 * g.player.x + g.player.width))
                <= Abs(2 * g.enemies[j].x + g.enemies[j].width - (2 * g.player.x + g.player.width))
        /\ \A j \in 1..(i - 1) :
              Abs(2 * g.enemies[j].x + g.enemies[j].width - (2 * g.player.x + g.player.width))
                > Abs(2 * g.enemies[i].x + g.enemies[i].width - (2 * g.player.x + g.player.width))

\* playerShoot, lines 867-870: the centre of enemy e, in half pixels
TargetAt(e) == [has |-> TRUE, x2 |-> 2 * e.x + e.width, y2 |-> 2 * e.y + e.height]

\* playerShoot, lines 851-872: targetX and targetY
AimTarget(g) ==
    IF g.player.hasAutoAim /\ Len(g.enemies) > 0
    THEN TargetAt(g.enemies[ClosestEnemy(g)])
    ELSE NoTarget

\* playerShoot, lines 873-882: r is what player.shoot returned
AddShots(g, r) == [g EXCEPT !.player = r.player, !.bullets = g.bullets \o r.bullets]

\* SpaceInvadersGame.playerShoot
playerShoot(g) == AddShots(g, PlayerShoot(g.player, AimTarget(g)))

\* handleInput, lines 839-841
InputLeft(g) ==
    IF "ArrowLeft" \in g.keys THEN [g EXCEPT !.player = moveLeft(g.player)] ELSE g

\* handleInput, lines 842-844
InputRight(g) ==
    IF "ArrowRight" \in g.keys THEN [g EXCEPT !.player = moveRight(g.player)] ELSE g

\* handleInput, lines 845-847
InputShoot(g) == IF "Space" \in g.keys THEN playerShoot(g) ELSE g

\* SpaceInvadersGame.handleInput
handleInput(g) == InputShoot(InputRight(InputLeft(g)))

HitEdgeFirstEnemy(g) ==
    /\ Len(g.enemies) > 0
    /\ \/ (g.enemies[1].x <= 0 /\ g.enemyDirection = -1)
       \/ (g.enemies[1].x + g.enemies[1].width >= CanvasWidth /\ g.enemyDirection = 1)

\* moveEnemies, lines 910-918: some enemy is at the edge it is moving towards
HitEdge(g) ==
    \E i \in DOMAIN g.enemies :
        \/ (g.enemies[i].x <= 0 /\ g.enemyDirection = -1)
        \/ (g.enemies[i].x + g.enemies[i].width >= CanvasWidth /\ g.enemyDirection = 1)

AdvanceAndDrop(e, direction) == [e EXCEPT !.x = e.x + e.speed * direction,
                                          !.y = e.y + e.dropSpeed]

\* moveEnemies, lines 928-930
Advance(e, direction) == [e EXCEPT !.x = e.x + e.speed * direction]

\* SpaceInvadersGame.moveEnemies
moveEnemies(g) ==
    IF HitEdge(g)
    THEN [g EXCEPT !.enemyDirection = g.enemyDirection * (-1),
                   !.enemies = [i \in DOMAIN g.enemies |->
                                   moveDown(g.enemies[i])]]
    ELSE [g EXCEPT !.enemies = [i \in DOMAIN g.enemies |->
                                   Advance(g.enemies[i], g.enemyDirection)]]

\* updateEnemies, line 889
WaveDue(timer, interval) == timer >= interval

\* updateEnemies, lines 886-892
WaveTimer(g, deltaTime) ==
    IF WaveDue(g.enemyMoveTimer + deltaTime, g.enemyMoveInterval)
    THEN [moveEnemies(g) EXCEPT !.enemyMoveTimer = 0]
    ELSE [g EXCEPT !.enemyMoveTimer = g.enemyMoveTimer + deltaTime]

\* updateEnemies, lines 895-906: the bullets of the enemies i, i+1, ... that
\* shoot this frame
RECURSIVE EnemyShots(_, _, _)
EnemyShots(g, shooters, i) ==
    IF i > Len(g.enemies) THEN <<>>
    ELSE (IF i \in shooters
          THEN <<[EnemyShoot(g.enemies[i]) EXCEPT !.vy = g.levelData.enemyBulletSpeed]>>
          ELSE <<>>) \o EnemyShots(g, shooters, i + 1)

\* updateEnemies, lines 895-906
EnemiesShoot(g, shooters) ==
    [g EXCEPT !.enemyBullets = g.enemyBullets \o EnemyShots(g, shooters, 1)]

\* SpaceInvadersGame.updateEnemies; shooters are the enemies whose
\* shouldShoot() draw (Math.random() < shootFrequency) succeeds this frame
updateEnemies(g, deltaTime, shooters) == EnemiesShoot(WaveTimer(g, deltaTime), shooters)

\* updateBullets, lines 938-948: update every bullet, keep the active ones
StepBullets(bs) ==
    SelectSeq([i \in DOMAIN bs |-> BulletUpdate(bs[i])], LAMBDA b : b.active)

\* SpaceInvadersGame.updateBullets
updateBullets(g) ==
    [g EXCEPT !.bullets = StepBullets(g.bullets),
              !.enemyBullets = StepBullets(g.enemyBullets)]

\* Utils.updateScreenShake and the caller's reset to null
ShakeUpdate(shake, deltaTime) ==
    IF shake = NoShake THEN NoShake
    ELSE IF shake.time < shake.duration
         THEN [shake EXCEPT !.time = shake.time + deltaTime]
         ELSE NoShake

\* SpaceInvadersGame.updateEffects
updateEffects(g, deltaTime) ==
    [g EXCEPT
        !.particles = SelectSeq([i \in DOMAIN g.particles |->
                                    ParticleUpdate(g.particles[i], deltaTime)],
                                LAMBDA q : q.active),
        !.explosions = SelectSeq([i \in DOMAIN g.explosions |->
                                    ExplosionUpdate(g.explosions[i], deltaTime)],
                                 LAMBDA ex : ex.active),
        !.powerUps = SelectSeq([i \in DOMAIN g.powerUps |->
                                    PowerUpUpdate(g.powerUps[i], deltaTime, CanvasHeight)],
                               LAMBDA u : u.active),
        !.screenShake = ShakeUpdate(g.screenShake, deltaTime),
        !.flashEffect =
            IF g.flashEffect.active
            THEN LET v == g.flashEffect.intensity - 3 * deltaTime
                 IN  [active |-> IF v <= 0 THEN FALSE ELSE TRUE, intensity |-> v]
            ELSE g.flashEffect]

----------------------------------------------------------------------------
(* SpaceInvadersGame.checkCollisions *)

\* the first wall, in array order, that is active and overlaps the bullet
\* (0 when there is none)
FirstWallHit(b, ws) ==
    LET hits == {w \in DOMAIN ws : ws[w].active /\ EntityCollides(b, ws[w])}
    IN  IF hits = {} THEN 0 ELSE CHOOSE w \in hits : \A v \in hits : w <= v

\* the hit without the splice of line 996
BulletHitsWallKeepsBullet(c, i, w, isPlayerBullet) ==
    [bullets |-> c.bullets,
     walls |-> [c.walls EXCEPT ![w] =
                   WallTakeDamage(c.walls[w],
                                  c.bullets[i].x + c.bullets[i].width \div 2,
                                  c.bullets[i].y + c.bullets[i].height \div 2,
                                  isPlayerBullet).wall],
     particles |-> c.particles \o createParticles(3)]

\* Lines 994-1008 and 1070-1084: bullet i has hit wall w
BulletHitsWall(c, i, w, isPlayerBullet) ==
    [bullets |-> RemoveAt(c.bullets, i),
     walls |-> [c.walls EXCEPT ![w] =
                   WallTakeDamage(c.walls[w],
                                  c.bullets[i].x + c.bullets[i].width \div 2,
                                  c.bullets[i].y + c.bullets[i].height \div 2,
                                  isPlayerBullet).wall],
     particles |-> c.particles \o createParticles(3)]

\* Lines 988-1013 and 1064-1089: bullets i, i-1, ..., 1 against the walls.
\* c holds the bullets, the walls and the particles.
RECURSIVE BulletsVsWalls(_, _, _)
BulletsVsWalls(c, i, isPlayerBullet) ==
    IF i < 1 THEN c
    ELSE IF FirstWallHit(c.bullets[i], c.walls) = 0
         THEN BulletsVsWalls(c, i - 1, isPlayerBullet)
         ELSE BulletsVsWalls(
                  BulletHitsWall(c, i, FirstWallHit(c.bullets[i], c.walls), isPlayerBullet),
                  i - 1, isPlayerBullet)

\* SpaceInvadersGame.createExplosion
createExplosion(g) ==
    [g EXCEPT !.explosions = Append(g.explosions, NewExplosion),
              !.particles = g.particles \o createParticles(8)]

\* SpaceInvadersGame.spawnPowerUp called at the centre of enemy e, in the half
\* pixels of PowerUp: new PowerUp(x - 12, y, type)
spawnPowerUp(g, e, type) ==
    [g EXCEPT !.powerUps = Append(g.powerUps,
                NewPowerUp(2 * e.x + e.width - 24, 2 * e.y + e.height, type))]

\* the types spawnPowerUp draws from (line 1183)
SpawnTypes == {"shield", "multi-shot", "auto-aim", "rapid-fire", "life-up"}

LifeUpUncapped(lives) == lives + 1

\* applyPowerUp, line 1215
LifeUp(lives) == Min(lives + 1, MaxLives)

\* SpaceInvadersGame.applyPowerUp
applyPowerUp(g, u) ==
    LET flash == [active |-> TRUE, intensity |-> 300]
    IN  CASE u.type \in {"shield", "multi-shot", "auto-aim", "rapid-fire"} ->
               [g EXCEPT !.player = activatePowerUp(g.player, u.type, u.duration),
                         !.flashEffect = flash]
          [] u.type = "life-up" ->
               [g EXCEPT !.lives = LifeUp(g.lives), !.flashEffect = flash]
          [] u.type = "points" ->
               [g EXCEPT !.score = g.score + BonusPoints, !.flashEffect = flash]
          [] OTHER -> g

\* the last enemy, in array order, that overlaps the bullet (0 when there is
\* none): the inner loop of lines 1021-1050 runs from the last enemy down
LastEnemyHit(b, es) ==
    LET hits == {j \in DOMAIN es : EntityCollides(b, es[j])}
    IN  IF hits = {} THEN 0 ELSE CHOOSE h \in hits : \A v \in hits : h >= v

ScoreKillTwice(g, e) ==
    [g EXCEPT !.score = g.score + 2 * e.points,
              !.enemiesKilled = g.enemiesKilled + 1]

\* Lines 1032-1034: the score of the kill
ScoreKill(g, e) ==
    [g EXCEPT !.score = g.score + e.points,
              !.enemiesKilled = g.enemiesKilled + 1]

\* Lines 1036-1039: the 10% power-up drop
DropPowerUp(g, e, drop) == IF drop = "none" THEN g ELSE spawnPowerUp(g, e, drop)

\* Lines 1041-1046: remove the bullet and the enemy, shake the screen
RemoveKilled(g, i, j) ==
    [g EXCEPT !.bullets = RemoveAt(g.bullets, i),
              !.enemies = RemoveAt(g.enemies, j),
              !.screenShake = createScreenShake(3, 100)]

\* Lines 1025-1049: bullet i kills enemy j
KillEnemy(g, i, j, drop) ==
    RemoveKilled(
        DropPowerUp(ScoreKill(createExplosion(g), g.enemies[j]), g.enemies[j], drop),
        i, j)

\* Lines 1018-1051: bullets i, i-1, ..., 1 against the enemies, each against
\* enemies j = last, ..., 1.  drops[k] is the random outcome of the k-th kill of
\* the frame: "none" (Math.random() >= 0.1) or the type drawn by spawnPowerUp.
RECURSIVE BulletsVsEnemies(_, _, _, _)
BulletsVsEnemies(g, i, drops, k) ==
    IF i < 1 THEN g
    ELSE IF LastEnemyHit(g.bullets[i], g.enemies) = 0
         THEN BulletsVsEnemies(g, i - 1, drops, k)
         ELSE BulletsVsEnemies(
                  KillEnemy(g, i, LastEnemyHit(g.bullets[i], g.enemies),
                            IF k \in DOMAIN drops THEN drops[k] ELSE "none"),
                  i - 1, drops, k + 1)

\* Lines 1054-1061: power-ups i, i-1, ..., 1 against the player
RECURSIVE PowerUpsVsPlayer(_, _)
PowerUpsVsPlayer(g, i) ==
    IF i < 1 THEN g
    ELSE IF checkCollision(getBounds(g.powerUps[i]), Doubled(g.player))
         THEN PowerUpsVsPlayer(
                 [applyPowerUp(g, g.powerUps[i]) EXCEPT
                     !.powerUps = RemoveAt(g.powerUps, i)], i - 1)
         ELSE PowerUpsVsPlayer(g, i - 1)

\* Lines 1097-1102: the hit cost a life
LoseLife(g) ==
    [createExplosion([g EXCEPT !.lives = g.lives - 1]) EXCEPT
        !.screenShake = createScreenShake(8, 300),
        !.flashEffect = [active |-> TRUE, intensity |-> 500]]

\* Lines 1095-1105: one enemy bullet that overlaps the player (the caller
\* removes the bullet)
HitPlayer(g) ==
    IF PlayerTakeDamage(g.player).ret
    THEN LoseLife([g EXCEPT !.player = PlayerTakeDamage(g.player).player])
    ELSE [g EXCEPT !.player = PlayerTakeDamage(g.player).player]

\* Lines 1092-1106: enemy bullets i, i-1, ..., 1 against the player
RECURSIVE EnemyBulletsVsPlayer(_, _)
EnemyBulletsVsPlayer(g, i) ==
    IF i < 1 THEN g
    ELSE IF EntityCollides(g.enemyBullets[i], g.player)
         THEN EnemyBulletsVsPlayer(
                 [HitPlayer(g) EXCEPT !.enemyBullets = RemoveAt(g.enemyBullets, i)],
                 i - 1)
         ELSE EnemyBulletsVsPlayer(g, i - 1)

\* Lines 1109-1113: an enemy has reached the player's row
EnemiesReachedPlayer(g) ==
    \E i \in DOMAIN g.enemies :
        g.enemies[i].y + g.enemies[i].height >= g.player.y

\* the player's bullets, the walls and the particles that BulletsVsWalls left
PutPlayerBullets(g, c) ==
    [g EXCEPT !.bullets = c.bullets, !.walls = c.walls, !.particles = c.particles]

\* the enemy bullets, the walls and the particles that BulletsVsWalls left
PutEnemyBullets(g, c) ==
    [g EXCEPT !.enemyBullets = c.bullets, !.walls = c.walls, !.particles = c.particles]

\* Lines 988-1013: the player's bullets against the walls
PlayerBulletsVsWalls(g) ==
    PutPlayerBullets(g, BulletsVsWalls([bullets |-> g.bullets, walls |-> g.walls,
                                        particles |-> g.particles],
                                       Len(g.bullets), TRUE))

\* Line 1016: this.walls = this.walls.filter(wall => wall.active)
DropInactiveWalls(g) == [g EXCEPT !.walls = SelectSeq(g.walls, LAMBDA w : w.active)]

\* Lines 1064-1089: the enemy bullets against the walls
EnemyBulletsVsWalls(g) ==
    PutEnemyBullets(g, BulletsVsWalls([bullets |-> g.enemyBullets, walls |-> g.walls,
                                       particles |-> g.particles],
                                      Len(g.enemyBullets), FALSE))

\* Lines 1018-1051
PlayerBulletsVsEnemies(g, drops) == BulletsVsEnemies(g, Len(g.bullets), drops, 1)

\* Lines 1054-1061
CollectPowerUps(g) == PowerUpsVsPlayer(g, Len(g.powerUps))

\* Lines 1092-1106
EnemyBulletsHitPlayer(g) == EnemyBulletsVsPlayer(g, Len(g.enemyBullets))

EnemiesLandedOneLife(g) ==
    IF EnemiesReachedPlayer(g) THEN [g EXCEPT !.lives = g.lives - 1] ELSE g

\* Lines 1109-1113
EnemiesLanded(g) == IF EnemiesReachedPlayer(g) THEN [g EXCEPT !.lives = 0] ELSE g

\* SpaceInvadersGame.checkCollisions
checkCollisions(g, drops) ==
    EnemiesLanded(
        EnemyBulletsHitPlayer(
            EnemyBulletsVsWalls(
                CollectPowerUps(
                    PlayerBulletsVsEnemies(
                        DropInactiveWalls(PlayerBulletsVsWalls(g)), drops)))))

levelCompleteSameLevel(g) == [g EXCEPT !.gameState = "levelComplete"]

\* SpaceInvadersGame.levelComplete
levelComplete(g) ==
    [g EXCEPT !.gameState = "levelComplete",
              !.currentLevel = g.currentLevel + 1]

\* SpaceInvadersGame.gameOver (saveHighScore writes localStorage only)
gameOver(g) == [g EXCEPT !.gameState = "gameOver"]

\* checkGameConditions with its two tests in the other order
checkGameConditionsWinFirst(g) ==
    IF Len(g.enemies) = 0 /\ g.gameState = "playing" THEN levelComplete(g)
    ELSE IF g.lives <= 0 /\ g.gameState # "gameOver" THEN gameOver(g)
    ELSE g

\* SpaceInvadersGame.checkGameConditions
checkGameConditions(g) ==
    IF g.lives <= 0 /\ g.gameState # "gameOver" THEN gameOver(g)
    ELSE IF Len(g.enemies) = 0 /\ g.gameState = "playing" THEN levelComplete(g)
    ELSE g

\* update, line 816
UpdatePlayer(g, deltaTime) ==
    [g EXCEPT !.player = PlayerUpdate(g.player, deltaTime, CanvasWidth)]

\* SpaceInvadersGame.update: rnd holds the frame's random draws
update(g, deltaTime, rnd) ==
    checkGameConditions(
        checkCollisions(
            updateEffects(
                updateBullets(
                    updateEnemies(UpdatePlayer(handleInput(g), deltaTime),
                                  deltaTime, rnd.shooters)),
                deltaTime),
            rnd.drops))

\* gameLoop, line 793, in milliseconds
LoopDelta(currentTime, lastTime) == currentTime - lastTime

\* lastTime moved on by the frames that play only
LoopLastTimeWhilePlaying(g, currentTime, lastTime) ==
    IF g.gameState = "playing" THEN currentTime ELSE lastTime

\* gameLoop, line 794: this.lastTime = currentTime, whatever the state
LoopLastTime(g, currentTime, lastTime) == currentTime

gameLoopAlways(g, deltaTime, rnd) == update(g, deltaTime, rnd)

\* SpaceInvadersGame.gameLoop: lastTime is set to currentTime on every frame,
\* whatever the state, so deltaTime is the time since the previous frame
gameLoop(g, deltaTime, rnd) ==
    IF g.gameState = "playing" THEN update(g, deltaTime, rnd) ELSE g

----------------------------------------------------------------------------
(* Inputs and bounds of the game specification *)

\* the time between two frames
DeltaTimes == {1400}

MaxLoads == 1
MaxLevel == 2
MaxBullets == 1
MaxEnemyBullets == 1
MaxPowerUps == 1
MaxShooters == 1
MaxDrops == 1
MaxTravel == 1
MaxTicks == 7

\* The level data a successful fetch may return.  The client installs what it
\* receives without validation; these small levels end within a few wave steps.
\* One enemy that runs to the left edge, drops to just above the player's row,
\* crosses the player's column and drops into the player's row at the right
\* edge; one small wall in the player's line of fire.
LevelConfigs ==
    {[level |-> 0, enemyRows |-> 1, enemyCols |-> 1, enemySpeed |-> 330,
      enemyDropSpeed |-> 440, enemyBulletSpeed |-> 2, enemyMoveDirection |-> -1,
      pointsPerEnemy |-> 30, enemyType |-> "basic",
      walls |-> [given |-> TRUE, count |-> 1, width |-> 8, height |-> 4,
                 health |-> 2, yPosition |-> 530]]}

\* Utils.fetchLevelData when the fetch succeeds: the server answers with the
\* data of the level asked for
FetchedLevels(levelNumber) == {[c EXCEPT !.level = levelNumber] : c \in LevelConfigs}

Keys == {"Space"}

\* what /api/ai/status may answer for enabled
AIStatuses == {TRUE}

DropChoices == SpawnTypes \cup {"none"}

\* the random draws of one frame: the enemies whose shouldShoot says yes, and
\* for the k-th enemy killed what spawnPowerUp's two Math.random calls give
\* (no more enemies die in a frame than there are)
\* the subsets of S with at most k elements
RECURSIVE SubsetsUpTo(_, _)
SubsetsUpTo(S, k) ==
    IF k = 0 THEN {{}}
    ELSE {t \cup u : t \in SubsetsUpTo(S, k - 1), u \in {{}} \cup {{x} : x \in S}}

Draws(g) ==
    {[shooters |-> sh, drops |-> dr] :
        sh \in SubsetsUpTo(DOMAIN g.enemies, MaxShooters),
        dr \in [1..Min(MaxDrops, Len(g.enemies)) -> DropChoices]}

WithinBounds(g) ==
    /\ Len(g.bullets) <= MaxBullets
    /\ Len(g.enemyBullets) <= MaxEnemyBullets
    /\ Len(g.powerUps) <= MaxPowerUps
    /\ Abs(g.player.x - FreshPlayer.x) <= MaxTravel * PlayerSpeed
    /\ g.currentLevel <= MaxLevel + 1

\* a pending loadLevel(levelNumber) and the caller awaiting it; the useAI flag
\* only selects the endpoint asked, and either endpoint answers with level data
Load(levelNumber, from) == [level |-> levelNumber, from |-> from]

----------------------------------------------------------------------------
(* The game specification *)

GameInit ==
    /\ game = NewGame
    /\ loads = <<Load(1, "init")>>
    /\ initStep = "load"
    /\ lastOp = "other"
    /\ ticks = 0
    /\ lastDelta = 0

IdleWall == NewWall(0, 0, BlockSize, BlockSize, 1)
IdleRect == [x |-> 0, y |-> 0, width |-> 1, height |-> 1]

NoCalls == [called |-> FALSE, ab |-> FALSE, ba |-> FALSE]
NoShield == [activated |-> FALSE, elapsed |-> 0, hits |-> 0, absorbed |-> 0]

WallIdle == wall = IdleWall /\ wallRet = FALSE /\ wallHits = {}
RectIdle == rect1 = IdleRect /\ rect2 = IdleRect /\ collides = NoCalls
ShieldIdle == shieldHist = NoShield

\* the ids of the signed-in users that post scores
Users == {1, 2}

\* the service as constructed (Date.now() in seconds, no entry in rateLimits:
\* Map.get gives undefined, 0 here) and a page with nothing queued
NewServer == [now |-> 1, rateLimits |-> [u \in Users |-> 0], scores |-> <<>>]
NewClient == [authenticated |-> FALSE, online |-> TRUE, pending |-> <<>>, used |-> 0]
NoReply == [user |-> 0, session_id |-> "", status |-> 0]
BoardIdle == server = NewServer /\ client = NewClient /\ reply = NoReply

\* no Player.shoot call made yet
NoShots == [bullets |-> <<>>, shots |-> 0, since |-> 0, cooldown |-> 0, updates |-> 0]
ShotIdle == shotHist = NoShots

\* the page has just been opened: no frame has run (lastTime = 0, game.js
\* constructor) and nothing has been paused
NoClock == [now |-> 0, lastTime |-> 0, saved |-> <<>>, count |-> 0, frames |-> 0,
            played |-> 0]
ClockIdle == clock = NoClock

Init ==
    /\ GameInit
    /\ WallIdle /\ RectIdle /\ ShieldIdle /\ BoardIdle /\ ShotIdle /\ ClockIdle

\* A pending loadLevel call resumes: the data is installed, then the caller
\* that awaited it goes on
LoadComplete ==
    \E i \in DOMAIN loads : \E data \in FetchedLevels(loads[i].level) :
        LET g1 == InstallLevel(game, data)
        IN  /\ game' = IF loads[i].from = "overlay"
                       THEN [g1 EXCEPT !.gameState = "playing"]
                       ELSE g1
            /\ loads' = RemoveAt(loads, i)
            /\ initStep' = IF loads[i].from = "init" THEN "aiCheck" ELSE initStep
            /\ lastOp' = "other"
            /\ UNCHANGED <<ticks, lastDelta, harnessVars>>

\* checkAIAvailability resumes, then initializeGame starts the loop: the first
\* gameLoop call runs at once with currentTime = 0 = lastTime
AICheckDone ==
    /\ initStep = "aiCheck"
    /\ \E enabled \in AIStatuses : \E rnd \in Draws(game) :
        LET g1 == [game EXCEPT !.aiEnabled = enabled]
        IN  /\ game' = gameLoop(g1, 0, rnd)
            /\ WithinBounds(game')
            /\ lastOp' = IF g1.gameState = "playing" THEN "tick" ELSE "frame"
            /\ ticks' = IF g1.gameState = "playing" THEN ticks + 1 ELSE ticks
    /\ lastDelta' = 0
    /\ initStep' = "running"
    /\ UNCHANGED <<loads, harnessVars>>

\* requestAnimationFrame calls gameLoop
Frame ==
    /\ initStep = "running"
    /\ game.currentLevel <= MaxLevel
    /\ game.gameState = "playing" => ticks < MaxTicks
    /\ \E deltaTime \in DeltaTimes : \E rnd \in Draws(game) :
        /\ game' = gameLoop(game, deltaTime, rnd)
        /\ WithinBounds(game')
        /\ lastOp' = IF game.gameState = "playing" THEN "tick" ELSE "frame"
        /\ ticks' = IF game.gameState = "playing" THEN ticks + 1 ELSE ticks
        /\ lastDelta' = deltaTime
    /\ UNCHANGED <<loads, initStep, harnessVars>>

\* startGame (start button, Space in menu or gameOver)
StartGame ==
    /\ Len(loads) < MaxLoads
    /\ game' = restartGame(game)
    /\ loads' = Append(loads, Load(1, "reset"))
    /\ lastOp' = "other"
    /\ UNCHANGED <<initStep, ticks, lastDelta, harnessVars>>

\* restartGame (restart button, KeyR)
RestartGame ==
    /\ Len(loads) < MaxLoads
    /\ game' = restartGame(game)
    /\ loads' = Append(loads, Load(1, "reset"))
    /\ lastOp' = "other"
    /\ UNCHANGED <<initStep, ticks, lastDelta, harnessVars>>

\* handleKeyDown for the keys handleInput reads; Space also shoots at once
\* while playing and starts a game from the menu or after a game over
KeyDown ==
    \E code \in Keys :
        LET g1 == [game EXCEPT !.keys = game.keys \cup {code}]
            starts == code = "Space" /\ game.gameState \in {"menu", "gameOver"}
        IN  /\ starts => Len(loads) < MaxLoads
            /\ game' = IF code = "Space" /\ game.gameState = "playing"
                       THEN playerShoot(g1)
                       ELSE IF starts THEN restartGame(g1) ELSE g1
            /\ WithinBounds(game')
            /\ loads' = IF starts
                        THEN Append(loads, Load(1, "reset"))
                        ELSE loads
            /\ lastOp' = "other"
            /\ UNCHANGED <<initStep, ticks, lastDelta, harnessVars>>

\* handleKeyUp
KeyUp ==
    \E code \in game.keys :
        /\ game' = [game EXCEPT !.keys = game.keys \ {code}]
        /\ lastOp' = "other"
        /\ UNCHANGED <<loads, initStep, ticks, lastDelta, harnessVars>>

\* togglePause (pause button; KeyP while playing or paused)
TogglePause ==
    /\ game.gameState \in {"playing", "paused"}
    /\ game' = togglePause(game)
    /\ lastOp' = "other"
    /\ UNCHANGED <<loads, initStep, ticks, lastDelta, harnessVars>>

\* window.SpaceInvadersGame.pause (main.js, lines 288-292 and 662): pauseGame
\* whatever the state of the game
PauseCommand ==
    /\ game.gameState # "paused"
    /\ game' = pauseGame(game)
    /\ lastOp' = "other"
    /\ UNCHANGED <<loads, initStep, ticks, lastDelta, harnessVars>>

\* the window loses focus while playing (bindEvents, lines 640-644)
Blur ==
    /\ game.gameState = "playing"
    /\ game' = pauseGame(game)
    /\ lastOp' = "other"
    /\ UNCHANGED <<loads, initStep, ticks, lastDelta, harnessVars>>

\* handleOverlayAction (the button of the overlay, which hideOverlay takes away
\* when play starts or resumes)
OverlayAction ==
    /\ game.gameState # "playing"
    /\ game.gameState \in {"paused", "levelComplete"} \/ Len(loads) < MaxLoads
    /\ CASE game.gameState = "paused" ->
              /\ game' = togglePause(game)
              /\ loads' = loads
         [] game.gameState = "levelComplete" ->
              /\ Len(loads) < MaxLoads
              /\ game' = game
              /\ loads' = Append(loads, Load(game.currentLevel, "overlay"))
         [] OTHER ->
              /\ game' = restartGame(game)
              /\ loads' = Append(loads, Load(1, "reset"))
    /\ lastOp' = "other"
    /\ UNCHANGED <<initStep, ticks, lastDelta, harnessVars>>

\* toggleAIGeneration (the checkbox addAIToggleButton adds when AI is enabled)
ToggleAI ==
    /\ game.aiEnabled
    /\ LET enabled == ~game.useAIGeneration
            reload == game.gameState \in {"playing", "paused"}
        IN  /\ reload => Len(loads) < MaxLoads
            /\ game' = [game EXCEPT !.useAIGeneration = enabled]
            /\ loads' = IF reload
                        THEN Append(loads, Load(game.currentLevel, "toggle"))
                        ELSE loads
    /\ lastOp' = "other"
    /\ UNCHANGED <<initStep, ticks, lastDelta, harnessVars>>

Next ==
    \/ LoadComplete
    \/ AICheckDone
    \/ Frame
    \/ StartGame
    \/ RestartGame
    \/ KeyDown
    \/ KeyUp
    \/ TogglePause
    \/ Blur
    \/ PauseCommand
    \/ OverlayAction
    \/ ToggleAI

Spec == Init /\ [][Next]_vars

----------------------------------------------------------------------------
(* Utils.checkCollision on its own *)

\* Entities have positive sizes (Player 40x30, Enemy 30x25 or 40x35, Bullet
\* 4x8, PowerUp 25x25, Wall at least 75x45).
MaxCoord == 3
MaxSize == 2

Rects == [x : 0..MaxCoord, y : 0..MaxCoord, width : 1..MaxSize, height : 1..MaxSize]

OverlapInit ==
    /\ GameInit /\ WallIdle /\ ShieldIdle /\ BoardIdle /\ ShotIdle /\ ClockIdle
    /\ rect1 \in Rects
    /\ rect2 \in Rects
    /\ collides = NoCalls

\* Utils.checkCollision(rect1, rect2) and Utils.checkCollision(rect2, rect1)
CheckCollision ==
    /\ ~collides.called
    /\ collides' = [called |-> TRUE,
                    ab |-> checkCollision(rect1, rect2),
                    ba |-> checkCollision(rect2, rect1)]
    /\ UNCHANGED <<game, loads, initStep, lastOp, ticks, lastDelta, wallVars, rect1, rect2,
                   shieldHist, boardVars, shotHist, clock>>

OverlapNext == CheckCollision

SpecOverlap == OverlapInit /\ [][OverlapNext]_vars

\* C7: checkCollision(a, b) is true exactly when the intersection of a and b
\* has positive area; rectangles that share only an edge or a corner do not
\* overlap; and checkCollision(a, b) = checkCollision(b, a).
OverlapIsStrictIntersection ==
    collides.called =>
        LET w == Min(rect1.x + rect1.width, rect2.x + rect2.width) - Max(rect1.x, rect2.x)
            h == Min(rect1.y + rect1.height, rect2.y + rect2.height) - Max(rect1.y, rect2.y)
            area == IF w > 0 /\ h > 0 THEN w * h ELSE 0
            touching == (w = 0 /\ h >= 0) \/ (h = 0 /\ w >= 0)
        IN  /\ collides.ab <=> area > 0
            /\ touching => ~collides.ab
            /\ collides.ab = collides.ba

\* rect1 ends exactly where rect2 begins (rect1.x + rect1.width = rect2.x),
\* the two span the same rows, and the call has answered
OverlapEdgeShared ==
    /\ collides.called
    /\ rect1.x + rect1.width = rect2.x
    /\ rect1.y = rect2.y /\ rect1.height = rect2.height
    /\ ~collides.ab

----------------------------------------------------------------------------
(* The Wall class on its own *)

\* The walls createWalls can be asked for: those of the levels of server.js
\* (lines 86-92, 126-132, 146-152, 166-172), of generateLevel (lines 202-208)
\* and the default of createWalls (the same as level 1)
WallConfigs ==
    {[width |-> 80, height |-> 60, health |-> 5],
     [width |-> 75, height |-> 55, health |-> 4],
     [width |-> 90, height |-> 50, health |-> 4],
     [width |-> 85, height |-> 45, health |-> 3],
     [width |-> 80, height |-> 45, health |-> 2]}

\* Impact points, relative to the wall's corner: one beside the wall, five whose
\* player-bullet discs are pairwise disjoint
ImpactXs == {-20, 2, 14, 26, 38, 50}
ImpactYs == {2}

WallInit ==
    /\ GameInit /\ RectIdle /\ ShieldIdle /\ BoardIdle /\ ShotIdle /\ ClockIdle
    /\ \E c \in WallConfigs : wall = NewWall(0, CanvasHeight - 150, c.width, c.height, c.health)
    /\ wallRet = FALSE
    /\ wallHits = {}

\* one wall.takeDamage(bulletX, bulletY, isPlayerBullet) call
TakeDamage ==
    \E ix \in ImpactXs, iy \in ImpactYs, isPlayerBullet \in BOOLEAN :
        LET r == WallTakeDamage(wall, wall.x + ix, wall.y + iy, isPlayerBullet)
        IN  /\ wall' = r.wall
            /\ wallRet' = r.ret
            /\ wallHits' = IF r.ret
                           THEN wallHits \cup {[x |-> ix, y |-> iy,
                                                isPlayerBullet |-> isPlayerBullet]}
                           ELSE wallHits
            /\ UNCHANGED <<game, loads, initStep, lastOp, ticks, lastDelta, rectVars, shieldHist, boardVars, shotHist, clock>>

WallNext == TakeDamage

SpecWall == WallInit /\ [][WallNext]_vars

\* C8: a takeDamage call that destroys at least one block lowers health by
\* exactly 1, whatever the number of blocks, and returns true; a call that
\* destroys none leaves health and blocks as they were and returns false;
\* health stays between 0 and the health the wall was created with.
WallHealthStep ==
    [][LET destroyed == ActiveBlocks(wall) - ActiveBlocks(wall')
       IN  /\ destroyed >= 0
           /\ destroyed > 0 => wall'.health = wall.health - 1 /\ wallRet'
           /\ destroyed = 0 => /\ wall'.health = wall.health
                               /\ wall'.blocks = wall.blocks
                               /\ ~wallRet'
           /\ wall.health \in 0..wall.maxHealth
           /\ wall'.health \in 0..wall'.maxHealth]_vars

\* one damaging call has destroyed several blocks and cost one health point
WallManyBlocksOneHealth ==
    /\ wallRet
    /\ Cardinality(wallHits) = 1
    /\ wall.health = wall.maxHealth - 1
    /\ Len(wall.blocks) - ActiveBlocks(wall) > 1

\* the impact discs of the damaging hits are pairwise disjoint
NonOverlapping(hits) ==
    \A h1, h2 \in hits :
        h1 # h2 =>
            LET r1 == IF h1.isPlayerBullet THEN PlayerImpactRadius ELSE EnemyImpactRadius
                r2 == IF h2.isPlayerBullet THEN PlayerImpactRadius ELSE EnemyImpactRadius
                dx == h1.x - h2.x
                dy == h1.y - h2.y
            IN  dx * dx + dy * dy >= (r1 + r2) * (r1 + r2)

----------------------------------------------------------------------------
(* moveEnemies on its own *)

MaxWave == 2
MaxWaveSteps == 4

\* Enemy columns: at the left edge, one step from it, mid-canvas, one step
\* from the right edge and at it (x + 30 = 800)
WaveXs == {0, 10, 400, 760, 770}
WaveSpeeds == {10}
WaveDropSpeeds == {20}

\* a game in play whose swarm is the enemies at xs, moving in direction
WaveGame(xs, direction, speed, dropSpeed) ==
    [NewGame EXCEPT
        !.gameState = "playing",
        !.enemies = [i \in DOMAIN xs |->
                        [NewEnemy(xs[i], EnemyStartY, "basic") EXCEPT
                            !.speed = speed, !.dropSpeed = dropSpeed]],
        !.totalEnemies = Len(xs),
        !.enemyDirection = direction]

WaveInit ==
    /\ \E n \in 1..MaxWave : \E xs \in [1..n -> WaveXs] : \E direction \in {-1, 1} :
       \E speed \in WaveSpeeds : \E dropSpeed \in WaveDropSpeeds :
          game = WaveGame(xs, direction, speed, dropSpeed)
    /\ loads = <<>>
    /\ initStep = "running"
    /\ lastOp = "other"
    /\ ticks = 0
    /\ lastDelta = 0
    /\ WallIdle /\ RectIdle /\ ShieldIdle /\ BoardIdle /\ ShotIdle /\ ClockIdle

\* one this.moveEnemies() call
WaveStep ==
    /\ ticks < MaxWaveSteps
    /\ game' = moveEnemies(game)
    /\ lastOp' = "wave"
    /\ ticks' = ticks + 1
    /\ UNCHANGED <<loads, initStep, lastDelta, harnessVars>>

WaveNext == WaveStep

SpecWave == WaveInit /\ [][WaveNext]_vars

\* some enemy is at the canvas edge the swarm is moving towards
AtEdge(g) ==
    \E i \in DOMAIN g.enemies :
        \/ g.enemyDirection = 1 /\ g.enemies[i].x + g.enemies[i].width >= CanvasWidth
        \/ g.enemyDirection = -1 /\ g.enemies[i].x <= 0

\* C4: a wave step with an enemy at the edge of the current direction flips
\* the shared direction and adds to every enemy's y its dropSpeed, leaving
\* every enemy's x unchanged.
WaveStepAtEdge ==
    [][(lastOp' = "wave" /\ AtEdge(game)) =>
          /\ game'.enemyDirection = -game.enemyDirection
          /\ Len(game'.enemies) = Len(game.enemies)
          /\ \A i \in DOMAIN game.enemies :
                /\ game'.enemies[i].y = game.enemies[i].y + game.enemies[i].dropSpeed
                /\ game'.enemies[i].x = game.enemies[i].x]_vars

\* a swarm of two has just dropped: the first enemy is mid-canvas, the second
\* at the right edge, and the direction now points left
WaveDropped ==
    /\ lastOp = "wave" /\ ticks = 1
    /\ Len(game.enemies) = 2
    /\ game.enemies[1].x = 400 /\ game.enemies[2].x = 770
    /\ game.enemies[1].y = EnemyStartY + game.enemies[1].dropSpeed
    /\ game.enemies[2].y = EnemyStartY + game.enemies[2].dropSpeed
    /\ game.enemyDirection = -1

\* C5: a wave step with no enemy at the edge of the current direction adds
\* speed * direction to every enemy's x and leaves every enemy's y and the
\* shared direction unchanged; one decision is taken for the whole swarm.
WaveStepOffEdge ==
    [][(lastOp' = "wave" /\ ~AtEdge(game)) =>
          /\ game'.enemyDirection = game.enemyDirection
          /\ Len(game'.enemies) = Len(game.enemies)
          /\ \A i \in DOMAIN game.enemies :
                /\ game'.enemies[i].x =
                      game.enemies[i].x + game.enemies[i].speed * game.enemyDirection
                /\ game'.enemies[i].y = game.enemies[i].y]_vars

\* a swarm of two has just advanced to the right, the second enemy reaching
\* the right edge
WaveAdvanced ==
    /\ lastOp = "wave" /\ ticks = 1
    /\ Len(game.enemies) = 2
    /\ game.enemies[1].x = 410 /\ game.enemies[2].x = 770
    /\ game.enemies[1].y = EnemyStartY /\ game.enemies[2].y = EnemyStartY
    /\ game.enemyDirection = 1

----------------------------------------------------------------------------
(* The player's shield: applyPowerUp, Player.update and the hit of lines
   1095-1105, in any order *)

MaxHits == 3

\* times between two Player.update calls
PlayerDeltaTimes == {1000, 4000}

\* the power-ups collected here
PlayerPowerUps == {"shield", "multi-shot"}

PlayerInit ==
    /\ game = [NewGame EXCEPT !.gameState = "playing"]
    /\ loads = <<>>
    /\ initStep = "running"
    /\ lastOp = "other"
    /\ ticks = 0
    /\ lastDelta = 0
    /\ WallIdle /\ RectIdle /\ ShieldIdle /\ BoardIdle /\ ShotIdle /\ ClockIdle

\* the player picks a power-up (lines 1054-1061: applyPowerUp)
Collect ==
    \E type \in PlayerPowerUps :
        /\ game.gameState = "playing"
        /\ game' = applyPowerUp(game, NewPowerUp(2 * game.player.x, 2 * game.player.y, type))
        /\ shieldHist' = IF type = "shield"
                         THEN [activated |-> TRUE, elapsed |-> 0, hits |-> 0,
                               absorbed |-> 0]
                         ELSE shieldHist
        /\ lastOp' = "collect"
        /\ UNCHANGED <<loads, initStep, ticks, lastDelta, wallVars, rectVars, boardVars, shotHist, clock>>

\* this.player.update(deltaTime, this.canvas.width)
PlayerTick ==
    \E deltaTime \in PlayerDeltaTimes :
        /\ game.gameState = "playing"
        /\ game' = [game EXCEPT !.player = PlayerUpdate(game.player, deltaTime, CanvasWidth)]
        /\ shieldHist' = [shieldHist EXCEPT
                             !.elapsed = Min(shieldHist.elapsed + deltaTime,
                                             2 * PowerUpDuration("shield"))]
        /\ lastOp' = "update"
        /\ UNCHANGED <<loads, initStep, ticks, lastDelta, wallVars, rectVars, boardVars, shotHist, clock>>

\* an enemy bullet overlaps the player
Hit ==
    /\ game.lives > 0
    /\ shieldHist.hits < MaxHits
    /\ game' = HitPlayer(game)
    /\ shieldHist' = [shieldHist EXCEPT
                         !.hits = shieldHist.hits + 1,
                         !.absorbed = IF game.player.hasShield /\ game'.lives = game.lives
                                      THEN shieldHist.absorbed + 1
                                      ELSE shieldHist.absorbed]
    /\ lastOp' = "hit"
    /\ UNCHANGED <<loads, initStep, ticks, lastDelta, wallVars, rectVars, boardVars, shotHist, clock>>

PlayerNext == Collect \/ PlayerTick \/ Hit

SpecPlayer == PlayerInit /\ [][PlayerNext]_vars

\* the hit of this step is absorbed: no life lost, shield flag cleared, shield
\* timer zeroed
HitAbsorbed ==
    /\ game'.lives = game.lives
    /\ ~game'.player.hasShield
    /\ game'.player.shieldTime = 0
    /\ game'.player.invulnerable = game.player.invulnerable

\* the hit of this step is an unshielded hit: it costs a life and starts the
\* invulnerability window unless the player is invulnerable already
HitUnshielded ==
    IF game.player.invulnerable
    THEN /\ game'.lives = game.lives
         /\ game'.player.invulnerabilityTime = game.player.invulnerabilityTime
    ELSE /\ game'.lives = game.lives - 1
         /\ game'.player.invulnerable
         /\ game'.player.invulnerabilityTime = MaxInvulnerabilityTime

\* C10 as stated: the first hit after a shield activation is absorbed (no life
\* lost, flag cleared, timer zeroed), however long after the activation it
\* comes, and the hits after it are unshielded hits.
ShieldAbsorbsNextHit ==
    [][(lastOp' = "hit" /\ shieldHist.activated) =>
          /\ shieldHist.hits = 0 => HitAbsorbed
          /\ shieldHist.hits > 0 => HitUnshielded
          /\ shieldHist'.absorbed = 1]_vars

\* C10 amended: the first hit after a shield activation is absorbed if it
\* comes before the shield's 10 seconds have run out; every other hit is an
\* unshielded hit; no activation absorbs more than one hit.
ShieldAbsorbsNextHitInTime ==
    [][lastOp' = "hit" =>
          LET inTime == /\ shieldHist.activated
                        /\ shieldHist.hits = 0
                        /\ shieldHist.elapsed < PowerUpDuration("shield")
          IN  /\ inTime => HitAbsorbed /\ shieldHist'.absorbed = 1
              /\ ~inTime => HitUnshielded /\ shieldHist'.absorbed = shieldHist.absorbed
              /\ shieldHist'.absorbed <= 1]_vars

\* a shield has absorbed one hit and the hit after it has cost a life
ShieldSpent ==
    /\ lastOp = "hit"
    /\ shieldHist.activated /\ shieldHist.hits = 2 /\ shieldHist.absorbed = 1
    /\ game.lives = InitialLives - 1
    /\ game.player.invulnerable
    /\ ~game.player.hasShield

----------------------------------------------------------------------------
(* Properties of the game specification *)

\* C1: no update() call runs while a loadLevel call is waiting for its level
\* data, whichever of start, restart, level advance or AI toggle began it.
NoTickDuringLoad ==
    [][lastOp' = "tick" => loads = <<>>]_vars

\* C2: a tick that ends with lives <= 0 ends in gameOver; a tick that ends with
\* no enemy and lives > 0 ends in levelComplete with the level raised by
\* exactly 1; every other tick leaves the game playing at the same level.
TickOutcome ==
    [][lastOp' = "tick" =>
          /\ game.gameState = "playing"
          /\ game'.lives <= 0 =>
                /\ game'.gameState = "gameOver"
                /\ game'.currentLevel = game.currentLevel
          /\ (game'.lives > 0 /\ Len(game'.enemies) = 0) =>
                /\ game'.gameState = "levelComplete"
                /\ game'.currentLevel = game.currentLevel + 1
          /\ (game'.lives > 0 /\ Len(game'.enemies) > 0) =>
                /\ game'.gameState = "playing"
                /\ game'.currentLevel = game.currentLevel]_vars

\* a tick has just killed the last enemy of level 1
TickWonLevel ==
    /\ lastOp = "tick"
    /\ game.gameState = "levelComplete"
    /\ game.currentLevel = 2
    /\ game.enemies = <<>>
    /\ game.enemiesKilled = 1
    /\ game.lives > 0

\* C3: a frame of the game loop in menu, paused, gameOver or levelComplete
\* changes nothing of the game: no position, timer, collection, score or lives
\* (the first frame follows the AI status check in one step, so the aiEnabled
\* flag is left out of the comparison).
IdleFrameChangesNothing ==
    [][(lastOp' = "frame" /\ game.gameState \in {"menu", "paused", "gameOver", "levelComplete"})
          => game' = [game EXCEPT !.aiEnabled = game'.aiEnabled]]_vars

\* a frame has passed over a paused game with a bullet in flight, an enemy
\* whose wave step is due and a running shoot cooldown
IdleFramePaused ==
    /\ lastOp = "frame"
    /\ game.gameState = "paused"
    /\ Len(game.bullets) > 0
    /\ Len(game.enemies) > 0
    /\ game.player.shootCooldown > 0

\* the enemies of the next state are enemies of g, and the direction is g's
SwarmOf(g) ==
    /\ game'.enemyDirection = g.enemyDirection
    /\ \A i \in DOMAIN game'.enemies : \E j \in DOMAIN g.enemies :
          game'.enemies[i] = g.enemies[j]

\* C6: a tick performs a wave step exactly when the move timer plus the
\* frame's time has reached the move interval, at most one, and then resets
\* the timer to 0; and whenever the game is playing level L the move interval
\* is max(0.3, 1.5 - 0.1 * L) seconds.
WaveTimingAndInterval ==
    /\ [][lastOp' = "tick" =>
             LET t == game.enemyMoveTimer + lastDelta'
             IN  IF t >= game.enemyMoveInterval
                 THEN game'.enemyMoveTimer = 0 /\ SwarmOf(moveEnemies(game))
                 ELSE game'.enemyMoveTimer = t /\ SwarmOf(game)]_vars
    /\ [](game.gameState = "playing" =>
             game.enemyMoveInterval =
                 (IF 1500 - 100 * game.currentLevel > 300
                  THEN 1500 - 100 * game.currentLevel ELSE 300))

----------------------------------------------------------------------------
(* Enemy bullets against the player: lines 1092-1106 on volleys of several
   bullets, with the power-ups and the timers of the player in between *)

MaxVolley == 2

\* where an enemy bullet may be when the collision phase runs: inside the
\* player's rectangle, or beside it with its right edge on the player's left
BulletSpots == {<<390, 552>>, <<376, 560>>}

\* a game in play with one enemy left, at the right edge after 22 drops: one
\* drop above the player's row
BulletsInit ==
    /\ game = [NewGame EXCEPT
                  !.gameState = "playing",
                  !.enemies = <<NewEnemy(CanvasWidth - EnemyWidth, EnemyStartY + 22 * 20,
                                         "basic")>>]
    /\ loads = <<>>
    /\ initStep = "running"
    /\ lastOp = "other"
    /\ ticks = 0
    /\ lastDelta = 0
    /\ WallIdle /\ RectIdle /\ ShieldIdle /\ BoardIdle /\ ShotIdle /\ ClockIdle

\* an enemy bullet arrives (updateEnemies pushes it, updateBullets moves it)
EnemyFire ==
    /\ game.gameState = "playing"
    /\ Len(game.enemyBullets) < MaxVolley
    /\ \E spot \in BulletSpots :
          game' = [game EXCEPT !.enemyBullets =
                      Append(game.enemyBullets,
                             NewBullet(spot[1], spot[2], 0,
                                       game.levelData.enemyBulletSpeed, FALSE))]
    /\ lastOp' = "fire"
    /\ UNCHANGED <<loads, initStep, ticks, lastDelta, harnessVars>>

\* the end of a tick: the wave step if one is due at the edge, the enemy
\* bullets x player phase and the boundary check of checkCollisions, then
\* checkGameConditions; shieldHist.hits keeps the number of bullets of the
\* volley that overlapped the player.  Play that has gone below 0 lives, or
\* that is resumed after the enemy has landed, is followed no further.
BulletPhase ==
    /\ game.gameState = "playing"
    /\ game.lives >= 0
    /\ ~EnemiesReachedPlayer(game)
    /\ \E wave \in BOOLEAN :
          /\ wave => HitEdge(game)
          /\ game' = checkGameConditions(EnemiesLanded(EnemyBulletsHitPlayer(
                         IF wave THEN moveEnemies(game) ELSE game)))
    /\ shieldHist' = [shieldHist EXCEPT
                         !.hits = Len(game.enemyBullets) - Len(game'.enemyBullets)]
    /\ lastOp' = "bullets"
    /\ UNCHANGED <<loads, initStep, ticks, lastDelta, wallVars, rectVars, boardVars, shotHist, clock>>

BulletsNext ==
    \/ Collect
    \/ PlayerTick
    \/ EnemyFire
    \/ BulletPhase
    \/ TogglePause
    \/ PauseCommand

SpecBullets == BulletsInit /\ [][BulletsNext]_vars

\* bullet b shares area with the rectangle of player p
OnPlayer(b, p) ==
    /\ b.x < p.x + p.width /\ p.x < b.x + b.width
    /\ b.y < p.y + p.height /\ p.y < b.y + b.height

\* some enemy of g has its bottom edge at or below the player's y
Landed(g) ==
    \E i \in DOMAIN g.enemies : g.enemies[i].y + g.enemies[i].height >= g.player.y

\* C11: the enemy-bullet phase removes exactly the bullets that overlap the
\* player, whatever the damage outcome; from bullets (no enemy has reached the
\* player's row) lives drop by at most 1 per tick, they drop only together with
\* the start of the invulnerability window, never while the player is
\* invulnerable, and always when an unshielded, vulnerable player is hit.
BulletHitsCostOneLife ==
    [][lastOp' = "bullets" =>
          LET p == game.player
              n == Cardinality({i \in DOMAIN game.enemyBullets :
                                   OnPlayer(game.enemyBullets[i], p)})
          IN  /\ game'.enemyBullets =
                    SelectSeq(game.enemyBullets, LAMBDA b : ~OnPlayer(b, game.player))
              /\ ~Landed(game') =>
                    /\ game'.lives \in {game.lives, game.lives - 1}
                    /\ game'.lives = game.lives - 1 =>
                          /\ n > 0
                          /\ ~p.invulnerable
                          /\ game'.player.invulnerable
                          /\ game'.player.invulnerabilityTime = MaxInvulnerabilityTime
                    /\ p.invulnerable => game'.lives = game.lives
                    /\ (n > 0 /\ ~p.invulnerable /\ ~p.hasShield) =>
                          game'.lives = game.lives - 1]_vars

\* a volley of two bullets, both on a vulnerable player, has cost exactly one
\* life and both bullets are gone
VolleyCostOneLife ==
    /\ lastOp = "bullets"
    /\ ~Landed(game)
    /\ shieldHist.hits = 2
    /\ game.enemyBullets = <<>>
    /\ game.lives = InitialLives - 1
    /\ game.player.invulnerable

\* C12: in every reachable state lives is an integer within [0, 5].
LivesInRange == game.lives \in 0..MaxLives

----------------------------------------------------------------------------
(* applyPowerUp on power-ups of every type *)

MaxApplies == 4

\* the types PowerUp.setPowerUpProperties and applyPowerUp know
PowerUpKinds == {"shield", "multi-shot", "auto-aim", "rapid-fire", "life-up", "points"}

PowerUpInit ==
    /\ game = [NewGame EXCEPT !.gameState = "playing"]
    /\ loads = <<>>
    /\ initStep = "running"
    /\ lastOp = "other"
    /\ ticks = 0
    /\ lastDelta = 0
    /\ WallIdle /\ RectIdle /\ ShieldIdle /\ BoardIdle /\ ShotIdle /\ ClockIdle

\* this.applyPowerUp(powerUp); lastOp keeps the type applied and ticks the
\* number of calls
Apply ==
    /\ ticks < MaxApplies
    /\ \E type \in PowerUpKinds :
          /\ game' = applyPowerUp(game, NewPowerUp(2 * game.player.x, 2 * game.player.y, type))
          /\ lastOp' = type
    /\ ticks' = ticks + 1
    /\ UNCHANGED <<loads, initStep, lastDelta, harnessVars>>

PowerUpNext == Apply

SpecPowerUp == PowerUpInit /\ [][PowerUpNext]_vars

\* C13: applying a life-up sets lives to min(lives + 1, 5), so 5 stays 5 and 4
\* becomes 5; it changes nothing of the player (no power-up flag, no timer) and
\* not the score.
LifeUpCapped ==
    [][lastOp' = "life-up" =>
          /\ game'.lives = (IF game.lives >= 5 THEN 5 ELSE game.lives + 1)
          /\ game'.player = game.player
          /\ game'.score = game.score]_vars

\* three life-ups and a points bonus have been applied, the last life-up at
\* the cap
LifeUpAtCap ==
    /\ lastOp = "life-up"
    /\ ticks = 4
    /\ game.lives = MaxLives
    /\ game.score = BonusPoints

\* the points of the enemies of es, added up
RECURSIVE PointsOf(_)
PointsOf(es) == IF es = <<>> THEN 0 ELSE Head(es).points + PointsOf(Tail(es))

\* C14: a tick raises the score by exactly the points of the enemies the
\* player's bullets destroyed in it and the kill counter by their number, one
\* enemy per bullet at most; over a tick the score never decreases and it is
\* never negative.
ScoreCountsKills ==
    [][lastOp' = "tick" =>
          LET killed == Len(game.enemies) - Len(game'.enemies)
          IN  /\ killed \in 0..(Len(game.bullets) + 3)
              /\ game'.score = game.score + PointsOf(game.enemies) - PointsOf(game'.enemies)
              /\ game'.enemiesKilled = game.enemiesKilled + killed
              /\ game'.score >= game.score
              /\ game'.score >= 0]_vars

\* a tick has destroyed the 30-point enemy just above the player, and the
\* life-up it dropped has been collected in the same tick
KillScored ==
    /\ lastOp = "tick"
    /\ game.score = 30
    /\ game.enemiesKilled = 1
    /\ game.lives = InitialLives + 1

\* C15: when at the end of the collision phases of a tick some enemy's bottom
\* edge is at or below the player's y, lives is 0 and the game is in gameOver
\* at the end of that tick, whatever the lives, the shield and the
\* invulnerability were.
LandingEndsGame ==
    [][(lastOp' \in {"bullets", "tick"} /\ Landed(game')) =>
          /\ game'.lives = 0
          /\ game'.gameState = "gameOver"]_vars

\* the enemy has dropped into the row of a shielded player that had lost no
\* life to a bullet (no explosion), and the game is over with 0 lives
LandedOnShield ==
    /\ lastOp = "bullets"
    /\ Landed(game)
    /\ game.player.hasShield
    /\ game.explosions = <<>>
    /\ game.lives = 0
    /\ game.gameState = "gameOver"

----------------------------------------------------------------------------
(* loadLevel when the fetch of the level data fails *)

\* the overlay's button has been pressed after level L - 1 was completed:
\* loadLevel(L) is waiting for its data, the game is still in levelComplete
LoadInit ==
    /\ \E L \in 2..(MaxLevel + 1) :
          /\ game = [NewGame EXCEPT !.gameState = "levelComplete", !.currentLevel = L]
          /\ loads = <<Load(L, "overlay")>>
    /\ initStep = "running"
    /\ lastOp = "other"
    /\ ticks = 0
    /\ lastDelta = 0
    /\ WallIdle /\ RectIdle /\ ShieldIdle /\ BoardIdle /\ ShotIdle /\ ClockIdle

\* the fetch rejects or answers with a status that is not OK: fetchLevelData
\* catches the error and resolves with its fallback, which loadLevel installs
FetchFails ==
    /\ loads # <<>>
    /\ game' = [InstallLevel(game, FetchFallback(loads[1].level)) EXCEPT
                   !.gameState = IF loads[1].from = "overlay"
                                 THEN "playing" ELSE game.gameState]
    /\ loads' = Tail(loads)
    /\ lastOp' = "fetchFailed"
    /\ UNCHANGED <<initStep, ticks, lastDelta, harnessVars>>

\* the first frames played with the installed level
MaxFallbackTicks == 3

PlayFallback ==
    /\ ticks < MaxFallbackTicks
    /\ Frame

LoadNext == FetchFails \/ PlayFallback

SpecLoad == LoadInit /\ [][LoadNext]_vars

\* C16: when the fetch of the level data fails, the level data the game
\* installs is the fixed fallback with enemyType 'basic', enemyRows 3 and
\* enemyCols 5 (15 enemies), for the level asked.
FallbackIsThreeByFive ==
    [][lastOp' = "fetchFailed" =>
          /\ game'.levelData.level = loads[1].level
          /\ game'.levelData.enemyType = "basic"
          /\ game'.levelData.enemyRows = 3
          /\ game'.levelData.enemyCols = 5
          /\ Len(game'.enemies) = 15]_vars

----------------------------------------------------------------------------
(* start and restart *)

\* a step of startGame or restartGame: the only steps that ask for level 1 again
Restarted ==
    /\ Len(loads') = Len(loads) + 1
    /\ loads'[Len(loads')] = Load(1, "reset")

\* C17: immediately after a start or restart command the game is playing with
\* score 0, 3 lives, level 1, a fresh player at the default position with no
\* power-up, cooldown or invulnerability, and no bullet, enemy bullet,
\* particle, explosion or power-up.
RestartIsFresh ==
    [][Restarted =>
          /\ game'.gameState = "playing"
          /\ game'.score = 0
          /\ game'.lives = 3
          /\ game'.currentLevel = 1
          /\ game'.player.x = CanvasWidth \div 2 - 20
          /\ game'.player.y = CanvasHeight - 50
          /\ game'.player.active
          /\ ~game'.player.hasShield /\ ~game'.player.hasMultiShot
          /\ ~game'.player.hasAutoAim /\ ~game'.player.hasRapidFire
          /\ ~game'.player.invulnerable
          /\ game'.player.shootCooldown = 0
          /\ game'.player.invulnerabilityTime = 0
          /\ game'.player.shieldTime = 0
          /\ game'.player.autoAimTime = 0
          /\ game'.player.rapidFireTime = 0
          /\ game'.player.maxShootCooldown = BaseShootCooldown
          /\ game'.bullets = <<>>
          /\ game'.enemyBullets = <<>>
          /\ game'.particles = <<>>
          /\ game'.explosions = <<>>
          /\ game'.powerUps = <<>>]_vars

\* a restart in the middle of a game in which an enemy was killed: nothing of
\* the old game's score, shots or effects is left
RestartedMidGame ==
    /\ loads = <<Load(1, "reset")>>
    /\ lastOp = "other"
    /\ game.enemiesKilled >= 1
    /\ game.gameState = "playing"
    /\ game.score = 0
    /\ game.lives = InitialLives
    /\ game.player = FreshPlayer
    /\ game.bullets = <<>> /\ game.particles = <<>> /\ game.explosions = <<>>

----------------------------------------------------------------------------
(* what a tick leaves in the collections *)

\* A level whose only enemy steps to the middle of the canvas on the first
\* wave step, right above the only wall: what it shoots there hits the wall.
DebrisLevel ==
    [level |-> 1, enemyRows |-> 1, enemyCols |-> 1, enemySpeed |-> 330,
     enemyDropSpeed |-> 20, enemyBulletSpeed |-> 2, enemyMoveDirection |-> 1,
     pointsPerEnemy |-> 10, enemyType |-> "basic",
     walls |-> [given |-> TRUE, count |-> 1, width |-> 8, height |-> 4,
                health |-> 2, yPosition |-> 110]]

\* the level has been loaded at start-up, the game started from the menu and
\* the level loaded again by resetGame
DebrisInit ==
    /\ game = InstallLevel(restartGame(InstallLevel(NewGame, DebrisLevel)), DebrisLevel)
    /\ loads = <<>>
    /\ initStep = "running"
    /\ lastOp = "other"
    /\ ticks = 0
    /\ lastDelta = 0
    /\ WallIdle /\ RectIdle /\ ShieldIdle /\ BoardIdle /\ ShotIdle /\ ClockIdle

DebrisNext == Frame \/ KeyDown \/ KeyUp

SpecDebris == DebrisInit /\ [][DebrisNext]_vars

AllActive(seq) == \A i \in DOMAIN seq : seq[i].active

\* C18: at the end of every tick no collection (bullets, enemy bullets,
\* enemies, walls, power-ups, particles, explosions) holds an entity whose
\* active flag is false.
NoInactiveEntityLeft ==
    lastOp = "tick" =>
        /\ AllActive(game.bullets)
        /\ AllActive(game.enemyBullets)
        /\ AllActive(game.enemies)
        /\ AllActive(game.walls)
        /\ AllActive(game.powerUps)
        /\ AllActive(game.particles)
        /\ AllActive(game.explosions)

----------------------------------------------------------------------------
(* the countdowns *)

\* C19: every countdown (shoot cooldown, invulnerability time, shield time,
\* auto-aim time, rapid-fire time, power-up lifetime) stays within its range,
\* from 0 to the value it is started at, in every reachable state.
CountdownsInRange ==
    /\ game.player.shootCooldown \in 0..game.player.maxShootCooldown
    /\ game.player.invulnerabilityTime \in 0..MaxInvulnerabilityTime
    /\ game.player.shieldTime \in 0..PowerUpDuration("shield")
    /\ game.player.autoAimTime \in 0..PowerUpDuration("auto-aim")
    /\ game.player.rapidFireTime \in 0..PowerUpDuration("rapid-fire")
    /\ \A i \in DOMAIN game.powerUps : game.powerUps[i].lifetime \in 0..PowerUpLifetime

----------------------------------------------------------------------------
(* the types of the power-ups dropped *)

\* C20: the power-up a killed enemy drops can be of any of the six types
\* shield, multi-shot, auto-aim, rapid-fire, life-up and points (whenever
\* there is an enemy to kill, each type is among the draws spawnPowerUp may
\* make), and no power-up of another type is ever spawned.
AnyKindCanDrop ==
    /\ game.enemies # <<>> =>
          \A kind \in PowerUpKinds :
              \E rnd \in Draws(game) : \E k \in DOMAIN rnd.drops : rnd.drops[k] = kind
    /\ \A i \in DOMAIN game.powerUps : game.powerUps[i].type \in PowerUpKinds

----------------------------------------------------------------------------
(* LeaderboardService and POST /api/v1/scores *)

\* canSubmitScore compares with 5000 ms; the clock of the model is in seconds
RateWindow == 5
MaxScore == 999999

\* the session ids posted: two that match the UUID v4 pattern and one that does not
ValidSessionIds == {"11111111-1111-4111-8111-111111111111",
                    "22222222-2222-4222-9222-222222222222"}
SessionIds == ValidSessionIds \cup {"not-a-uuid"}

\* LeaderboardService.isValidUUID, on the ids drawn
isValidUUID(uuid) == uuid \in ValidSessionIds

\* LeaderboardService.canSubmitScore
canSubmitScore(sv, userId) ==
    IF sv.rateLimits[userId] = 0 THEN TRUE
    ELSE sv.now - sv.rateLimits[userId] >= RateWindow

\* the UNIQUE(session_id) constraint of the scores table
SessionStored(sv, sessionId) ==
    \E i \in DOMAIN sv.scores : sv.scores[i].session_id = sessionId

ServiceSubmitScoreNoUnique(sv, userId, score, levelReached, sessionId) ==
    IF ~canSubmitScore(sv, userId) THEN [server |-> sv, error |-> "RATE_LIMIT"]
    ELSE IF score < 0 \/ score > MaxScore THEN [server |-> sv, error |-> "INVALID_SCORE"]
    ELSE IF levelReached < 1 THEN [server |-> sv, error |-> "INVALID_LEVEL"]
    ELSE IF ~isValidUUID(sessionId) THEN [server |-> sv, error |-> "INVALID_SESSION_ID"]
    ELSE [server |-> [sv EXCEPT
                         !.scores = Append(sv.scores,
                                        [user_id |-> userId, score |-> score,
                                         level_reached |-> levelReached,
                                         session_id |-> sessionId]),
                         !.rateLimits[userId] = sv.now],
          error |-> "none"]

\* LeaderboardService.submitScore: the service after the call and the error thrown
ServiceSubmitScore(sv, userId, score, levelReached, sessionId) ==
    IF ~canSubmitScore(sv, userId) THEN [server |-> sv, error |-> "RATE_LIMIT"]
    ELSE IF score < 0 \/ score > MaxScore THEN [server |-> sv, error |-> "INVALID_SCORE"]
    ELSE IF levelReached < 1 THEN [server |-> sv, error |-> "INVALID_LEVEL"]
    ELSE IF ~isValidUUID(sessionId) THEN [server |-> sv, error |-> "INVALID_SESSION_ID"]
    ELSE IF SessionStored(sv, sessionId) THEN [server |-> sv, error |-> "DUPLICATE_SESSION"]
    ELSE [server |-> [sv EXCEPT
                         !.scores = Append(sv.scores,
                                        [user_id |-> userId, score |-> score,
                                         level_reached |-> levelReached,
                                         session_id |-> sessionId]),
                         !.rateLimits[userId] = sv.now],
          error |-> "none"]

\* the status the route answers with for each error
StatusOf(error) ==
    CASE error = "none" -> 201
      [] error = "RATE_LIMIT" -> 429
      [] error = "DUPLICATE_SESSION" -> 409
      [] OTHER -> 400

\* what the users post: a score in range and one above it, levels 0 and 1
PostedScores == {100, MaxScore + 1}
PostedLevels == {0, 1}

\* the time that passes between two requests, and the end of the run
Waits == {1, 4}
MaxClock == 12

\* POST /api/v1/scores by a signed-in user
PostScore ==
    /\ \E userId \in Users : \E score \in PostedScores : \E level \in PostedLevels :
       \E sessionId \in SessionIds :
          /\ server' = ServiceSubmitScore(server, userId, score, level, sessionId).server
          /\ reply' = [user |-> userId, session_id |-> sessionId,
                       status |-> StatusOf(ServiceSubmitScore(server, userId, score, level,
                                                              sessionId).error)]
    /\ lastOp' = "post"
    /\ UNCHANGED <<game, loads, initStep, ticks, lastDelta, client,
                   wallVars, rectVars, shieldHist, shotHist, clock>>

\* time passes on the server
Elapse ==
    /\ \E d \in Waits :
          /\ server.now + d <= MaxClock
          /\ server' = [server EXCEPT !.now = server.now + d]
    /\ lastOp' = "other"
    /\ UNCHANGED <<game, loads, initStep, ticks, lastDelta, client, reply,
                   wallVars, rectVars, shieldHist, shotHist, clock>>

ServerInit ==
    /\ game = NewGame
    /\ loads = <<>>
    /\ initStep = "running"
    /\ lastOp = "other"
    /\ ticks = 0
    /\ lastDelta = 0
    /\ WallIdle /\ RectIdle /\ ShieldIdle /\ BoardIdle /\ ShotIdle /\ ClockIdle

ServerNext == PostScore \/ Elapse

SpecServer == ServerInit /\ [][ServerNext]_vars

\* the documented cooldown, in seconds
DocumentedWindow == 60

\* C21: after a user's submission has been accepted, every further submission
\* by the same user within 60 seconds is rejected as rate-limited and stores
\* nothing; the submissions of the other users are not rate-limited by it.
RateLimitSixtySeconds ==
    [][lastOp' = "post" =>
          /\ (/\ server.rateLimits[reply'.user] # 0
              /\ server.now - server.rateLimits[reply'.user] < DocumentedWindow)
                => (reply'.status = 429 /\ server'.scores = server.scores)
          /\ server.rateLimits[reply'.user] = 0 => reply'.status # 429]_vars


----------------------------------------------------------------------------
(* Leaderboard (client): submitScore, queueScore, retryPendingScores *)

\* the session ids Utils.generateUUID gives to the games of this page, in order
SessionPool == <<"11111111-1111-4111-8111-111111111111",
                 "22222222-2222-4222-9222-222222222222">>
MaxGames == Len(SessionPool)

\* the user this page signs in as, and what its games end with
PageUser == CHOOSE u \in Users : \A v \in Users : u <= v
FinalScore == 100
FinalLevel == 1

InPending(cl, sessionId) ==
    \E i \in DOMAIN cl.pending : cl.pending[i].session_id = sessionId

\* Leaderboard.queueScore
queueScore(cl, score, level, sessionId) ==
    [cl EXCEPT !.pending = Append(cl.pending,
                   [score |-> score, level_reached |-> level, session_id |-> sessionId])]

\* Leaderboard.submitScore: the page and the service after the call, and the
\* result ("success" for the body of a 201 answer, else the error field)
LeaderboardSubmitScore(cl, sv, score, level, sessionId) ==
    IF ~cl.authenticated
    THEN [client |-> cl, server |-> sv, result |-> "auth_required"]
    ELSE IF ~cl.online
    THEN [client |-> queueScore(cl, score, level, sessionId), server |-> sv,
          result |-> "network_error"]
    ELSE IF ServiceSubmitScore(sv, PageUser, score, level, sessionId).error = "none"
    THEN [client |-> cl,
          server |-> ServiceSubmitScore(sv, PageUser, score, level, sessionId).server,
          result |-> "success"]
    ELSE IF ServiceSubmitScore(sv, PageUser, score, level, sessionId).error = "RATE_LIMIT"
    THEN [client |-> cl, server |-> sv, result |-> "rate_limited"]
    ELSE [client |-> queueScore(cl, score, level, sessionId), server |-> sv,
          result |-> "network_error"]

\* the loop of retryPendingScores from entry i on: c holds the page, the
\* service and the entries kept for the next retry
RECURSIVE RetryFrom(_, _, _)
RetryFrom(c, todo, i) ==
    IF i > Len(todo) THEN c
    ELSE RetryFrom(
            [client |-> LeaderboardSubmitScore(c.client, c.server, todo[i].score,
                            todo[i].level_reached, todo[i].session_id).client,
             server |-> LeaderboardSubmitScore(c.client, c.server, todo[i].score,
                            todo[i].level_reached, todo[i].session_id).server,
             remaining |-> IF LeaderboardSubmitScore(c.client, c.server, todo[i].score,
                                  todo[i].level_reached, todo[i].session_id).result
                              = "network_error"
                           THEN Append(c.remaining, todo[i])
                           ELSE c.remaining],
            todo, i + 1)

\* Leaderboard.retryPendingScores: localStorage ends with the entries kept
retryPendingScores(cl, sv) ==
    IF cl.pending = <<>> THEN [client |-> cl, server |-> sv]
    ELSE [client |-> [cl EXCEPT !.pending =
                         RetryFrom([client |-> cl, server |-> sv, remaining |-> <<>>],
                                   cl.pending, 1).remaining],
          server |-> RetryFrom([client |-> cl, server |-> sv, remaining |-> <<>>],
                               cl.pending, 1).server]

\* handleGameOver: a signed-in player's score is submitted; another player
\* gets the sign-in prompt and either continues without signing in, which
\* queues the score, or closes the prompt
GameOverReport ==
    /\ client.used < MaxGames
    /\ \E continues \in BOOLEAN :
          IF client.authenticated
          THEN /\ client' = [LeaderboardSubmitScore(client, server, FinalScore, FinalLevel,
                                 SessionPool[client.used + 1]).client
                             EXCEPT !.used = client.used + 1]
               /\ server' = LeaderboardSubmitScore(client, server, FinalScore, FinalLevel,
                                 SessionPool[client.used + 1]).server
          ELSE /\ client' = [(IF continues
                              THEN queueScore(client, FinalScore, FinalLevel,
                                              SessionPool[client.used + 1])
                              ELSE client)
                             EXCEPT !.used = client.used + 1]
               /\ server' = server
    /\ lastOp' = "gameOver"
    /\ UNCHANGED <<game, loads, initStep, ticks, lastDelta, reply,
                   wallVars, rectVars, shieldHist, shotHist, clock>>

\* the player signs in or out
SignInOrOut ==
    /\ client' = [client EXCEPT !.authenticated = ~client.authenticated]
    /\ lastOp' = "other"
    /\ UNCHANGED <<game, loads, initStep, ticks, lastDelta, server, reply,
                   wallVars, rectVars, shieldHist, shotHist, clock>>

\* the network goes or comes back
Connection ==
    /\ client' = [client EXCEPT !.online = ~client.online]
    /\ lastOp' = "other"
    /\ UNCHANGED <<game, loads, initStep, ticks, lastDelta, server, reply,
                   wallVars, rectVars, shieldHist, shotHist, clock>>

\* a call of leaderboard.retryPendingScores()
RetryPending ==
    /\ client.pending # <<>>
    /\ client' = retryPendingScores(client, server).client
    /\ server' = retryPendingScores(client, server).server
    /\ lastOp' = "retry"
    /\ UNCHANGED <<game, loads, initStep, ticks, lastDelta, reply,
                   wallVars, rectVars, shieldHist, shotHist, clock>>

QueueNext == GameOverReport \/ SignInOrOut \/ Connection \/ RetryPending \/ Elapse

\* Nothing in the page calls retryPendingScores.  The retry is nevertheless
\* given weak fairness here, the most that "synced when online" can promise:
\* what fails under it fails all the more without it.
LiveQueue == ServerInit /\ [][QueueNext]_vars /\ WF_vars(RetryPending)

\* C22: once the network is available and the user is signed in, a score in
\* the pending queue is eventually submitted to the server: none stays
\* queued, unsubmitted, forever.
QueuedScoresGetSubmitted ==
    <>[](client.online /\ client.authenticated) =>
        \A sessionId \in ValidSessionIds :
            InPending(client, sessionId) ~> SessionStored(server, sessionId)

----------------------------------------------------------------------------
(* Player.shoot, Player.update, Player.takeDamage and the power-ups, in any
   order *)

MaxUpdates == 4
MaxPicks == 2

\* the power-ups picked here: the three timed ones and multi-shot
ShootPowerUps == {"shield", "multi-shot", "auto-aim", "rapid-fire"}

\* times between two Player.update calls: a frame shorter than both cooldowns
\* and a long pause
ShootDeltaTimes == {100, 4000}

\* the enemies auto-aim chooses from: none; the second one nearer; both at the
\* same distance, left and right of the player's centre
ShootTargets ==
    {<<>>,
     <<NewEnemy(100, 80, "basic"), NewEnemy(500, 130, "basic")>>,
     <<NewEnemy(485, 80, "basic"), NewEnemy(285, 80, "basic")>>}

ShootInit ==
    /\ \E targets \in ShootTargets :
          game = [NewGame EXCEPT !.gameState = "playing", !.enemies = targets]
    /\ loads = <<>>
    /\ initStep = "running"
    /\ lastOp = "other"
    /\ ticks = 0
    /\ lastDelta = 0
    /\ WallIdle /\ RectIdle /\ ShieldIdle /\ BoardIdle /\ ShotIdle /\ ClockIdle

\* this.player.shoot(targetX, targetY) as playerShoot calls it; what it
\* returns is kept in shotHist
Shoot ==
    /\ game' = [game EXCEPT !.player = PlayerShoot(game.player, AimTarget(game)).player]
    /\ shotHist' =
          IF PlayerShoot(game.player, AimTarget(game)).bullets # <<>>
          THEN [shotHist EXCEPT
                   !.bullets = PlayerShoot(game.player, AimTarget(game)).bullets,
                   !.shots = Min(shotHist.shots + 1, 2),
                   !.since = 0,
                   !.cooldown = game'.player.shootCooldown]
          ELSE [shotHist EXCEPT !.bullets = <<>>]
    /\ lastOp' = "shoot"
    /\ UNCHANGED <<loads, initStep, ticks, lastDelta, wallVars, rectVars, shieldHist,
                   boardVars, clock>>

\* this.player.update(deltaTime, this.canvas.width)
ShootTick ==
    /\ shotHist.updates < MaxUpdates
    /\ \E deltaTime \in ShootDeltaTimes :
          /\ game' = [game EXCEPT
                         !.player = PlayerUpdate(game.player, deltaTime, CanvasWidth)]
          /\ shotHist' = [shotHist EXCEPT !.since = Min(shotHist.since + deltaTime,
                                                         2 * BaseShootCooldown),
                                          !.updates = shotHist.updates + 1]
          /\ lastDelta' = deltaTime
    /\ lastOp' = "update"
    /\ UNCHANGED <<loads, initStep, ticks, wallVars, rectVars, shieldHist, boardVars, clock>>

\* this.applyPowerUp(powerUp) for the power-ups picked here
Pick ==
    /\ ticks < MaxPicks
    /\ Apply
    /\ lastOp' \in ShootPowerUps

ShootNext == Pick \/ Hit \/ Shoot \/ ShootTick

SpecShoot == ShootInit /\ [][ShootNext]_vars

\* C24: multi-shot has no timer.  Once picked up it stays through updates and
\* shots; it is cleared only by a takeDamage call that no shield absorbs, and
\* such a call clears it even when the player is invulnerable and loses no
\* life; a hit the shield absorbs leaves it.
MultiShotUntilHit ==
    [][/\ (game.player.hasMultiShot /\ ~game'.player.hasMultiShot) =>
             (lastOp' = "hit" /\ ~game.player.hasShield)
       /\ (lastOp' = "hit" /\ ~game.player.hasShield) =>
             /\ ~game'.player.hasMultiShot
             /\ game.player.invulnerable => game'.lives = game.lives
       /\ (lastOp' = "hit" /\ game.player.hasShield) =>
             game'.player.hasMultiShot = game.player.hasMultiShot]_vars

\* the second hit comes inside the invulnerability window of the first, after
\* one power-up was picked: no second life is lost and there is no multi-shot
MultiShotLostWhileInvulnerable ==
    /\ lastOp = "hit"
    /\ shieldHist.hits = 2
    /\ ticks = 1
    /\ shotHist.updates = 0
    /\ shieldHist.absorbed = 0
    /\ game.lives = InitialLives - 1
    /\ game.player.invulnerable
    /\ ~game.player.hasMultiShot /\ ~game.player.hasShield
    /\ ~game.player.hasAutoAim /\ ~game.player.hasRapidFire


\* C25: Player.shoot returns bullets only when the cooldown is <= 0 and then
\* sets the cooldown to maxShootCooldown; with a cooldown > 0 it returns
\* nothing and changes nothing.  So between two successful shots at least the
\* cooldown set by the first has passed in update time.
ShotsRespectCooldown ==
    [][lastOp' = "shoot" =>
          IF game.player.shootCooldown > 0
          THEN /\ shotHist'.bullets = <<>>
               /\ game' = game
          ELSE /\ shotHist'.bullets # <<>>
               /\ game'.player.shootCooldown = game.player.maxShootCooldown
               /\ game'.player = [game.player EXCEPT
                                     !.shootCooldown = game.player.maxShootCooldown]
               /\ shotHist.shots > 0 => shotHist.since >= shotHist.cooldown]_vars

\* a second successful shot, under rapid-fire, after a single short update
SecondShotAfterCooldown ==
    /\ lastOp = "shoot"
    /\ shotHist.shots = 2
    /\ shotHist.bullets # <<>>
    /\ shotHist.updates = 1
    /\ lastDelta = RapidShootCooldown
    /\ game.player.hasRapidFire
    /\ game.player.shootCooldown = RapidShootCooldown

\* the x of the centre of entity e, doubled
Centre2(e) == 2 * e.x + e.width

\* bullet b of player p flies towards enemy e: each component of its velocity
\* is that of the speed-8 vector from the player's top centre to the enemy's
\* centre, to the nearest pixel
AimedAt(b, p, e) ==
    /\ b.vx * b.vx + b.vy * b.vy \in (64 - 12)..(64 + 12)
    /\ 2 * Abs(b.vx * (2 * e.y + e.height - 2 * p.y) - b.vy * (Centre2(e) - Centre2(p)))
          <= Abs(2 * e.y + e.height - 2 * p.y) + Abs(Centre2(e) - Centre2(p))
    /\ b.vx * (Centre2(e) - Centre2(p)) >= 0
    /\ b.vy * (2 * e.y + e.height - 2 * p.y) >= 0

\* enemy i is the first of the enemies nearest to the player by the
\* horizontal distance of the centres
Nearest(g, i) ==
    /\ \A j \in DOMAIN g.enemies :
          Abs(Centre2(g.enemies[i]) - Centre2(g.player))
             <= Abs(Centre2(g.enemies[j]) - Centre2(g.player))
    /\ \A j \in 1..(i - 1) :
          Abs(Centre2(g.enemies[j]) - Centre2(g.player))
             > Abs(Centre2(g.enemies[i]) - Centre2(g.player))

\* b is a player bullet leaving the player's top centre with velocity (vx, vy)
Leaves(b, p, vx, vy) ==
    b = NewBullet(p.x + p.width \div 2 - 2, p.y, vx, vy, TRUE)

\* C26: a successful shot gives exactly one pattern, by priority: with
\* multi-shot three bullets of velocities (0,-8), (-2,-8), (2,-8); otherwise,
\* with auto-aim and an enemy, one bullet of speed 8 aimed at the enemy nearest
\* by horizontal centre distance; otherwise one straight bullet (0,-8).
ShotPattern ==
    [][(lastOp' = "shoot" /\ shotHist'.bullets # <<>>) =>
          IF game.player.hasMultiShot
          THEN /\ Len(shotHist'.bullets) = 3
               /\ Leaves(shotHist'.bullets[1], game.player, 0, -8)
               /\ Leaves(shotHist'.bullets[2], game.player, -2, -8)
               /\ Leaves(shotHist'.bullets[3], game.player, 2, -8)
          ELSE IF game.player.hasAutoAim /\ game.enemies # <<>>
          THEN /\ Len(shotHist'.bullets) = 1
               /\ Leaves(shotHist'.bullets[1], game.player,
                         shotHist'.bullets[1].vx, shotHist'.bullets[1].vy)
               /\ \E i \in DOMAIN game.enemies :
                     /\ Nearest(game, i)
                     /\ AimedAt(shotHist'.bullets[1], game.player, game.enemies[i])
          ELSE /\ Len(shotHist'.bullets) = 1
               /\ Leaves(shotHist'.bullets[1], game.player, 0, -8)]_vars

\* a shot with multi-shot and auto-aim both active and enemies to aim at
MultiShotBeatsAutoAim ==
    /\ lastOp = "shoot"
    /\ game.player.hasMultiShot /\ game.player.hasAutoAim
    /\ game.enemies # <<>>
    /\ Len(shotHist.bullets) = 3

\* the flag and the time after an update of deltaTime, for a flag that is set
Counted(flag, time, flag2, time2, deltaTime) ==
    flag => /\ time2 = time - deltaTime
            /\ flag2 = (time - deltaTime > 0)

\* C27: each timed flag (invulnerable, shield, auto-aim, rapid-fire) is
\* cleared in the update in which its time reaches <= 0, not before; picking
\* up a timed power-up sets its time to the full duration, also when it is
\* active already; and maxShootCooldown is 0.1 s exactly while rapid-fire is
\* active and 0.25 s otherwise.
TimedFlags ==
    [][/\ lastOp' = "update" =>
             /\ Counted(game.player.invulnerable, game.player.invulnerabilityTime,
                        game'.player.invulnerable, game'.player.invulnerabilityTime,
                        lastDelta')
             /\ Counted(game.player.hasShield, game.player.shieldTime,
                        game'.player.hasShield, game'.player.shieldTime, lastDelta')
             /\ Counted(game.player.hasAutoAim, game.player.autoAimTime,
                        game'.player.hasAutoAim, game'.player.autoAimTime, lastDelta')
             /\ Counted(game.player.hasRapidFire, game.player.rapidFireTime,
                        game'.player.hasRapidFire, game'.player.rapidFireTime,
                        lastDelta')
       /\ lastOp' = "shield" =>
             game'.player.hasShield /\ game'.player.shieldTime = 10000
       /\ lastOp' = "auto-aim" =>
             game'.player.hasAutoAim /\ game'.player.autoAimTime = 12000
       /\ lastOp' = "rapid-fire" =>
             game'.player.hasRapidFire /\ game'.player.rapidFireTime = 8000
       /\ game'.player.maxShootCooldown =
             (IF game'.player.hasRapidFire THEN 100 ELSE 250)]_vars

\* rapid-fire picked up again 4 s after the first pick-up: 8 s left, not 12 s
RapidFireRenewed ==
    /\ lastOp = "rapid-fire"
    /\ ticks = 2
    /\ shotHist.updates = 1
    /\ lastDelta = 4000
    /\ shieldHist.hits = 0
    /\ game.player.hasRapidFire
    /\ game.player.rapidFireTime = 8000
    /\ ~game.player.hasShield /\ ~game.player.hasAutoAim /\ ~game.player.hasMultiShot

----------------------------------------------------------------------------
(* a power-up from its drop to its removal *)

MaxDropTicks == 100

\* frames of 0.1 s and of 4 s
DropDeltaTimes == {100, 4000}

\* where the enemy that drops the power-up is killed: above the player; low
\* at the left; high at the left
DropSpots == {<<385, 500>>, <<100, 520>>, <<100, 100>>}

\* the tick of the kill has just ended: one power-up, one enemy left
DropInit ==
    /\ \E spot \in DropSpots : \E type \in SpawnTypes :
          game = spawnPowerUp([NewGame EXCEPT
                                  !.gameState = "playing",
                                  !.enemies = <<NewEnemy(EnemyStartX, EnemyStartY, "basic")>>],
                              NewEnemy(spot[1], spot[2], "basic"), type)
    /\ loads = <<>>
    /\ initStep = "running"
    /\ lastOp = "other"
    /\ ticks = 0
    /\ lastDelta = 0
    /\ WallIdle /\ RectIdle /\ ShieldIdle /\ BoardIdle /\ ShotIdle /\ ClockIdle

\* gameLoop while the power-up is there; the enemy does not shoot
DropTick ==
    /\ game.powerUps # <<>>
    /\ ticks < MaxDropTicks
    /\ \E deltaTime \in DropDeltaTimes : \E rnd \in Draws(game) :
          /\ rnd.shooters = {}
          /\ game' = gameLoop(game, deltaTime, rnd)
          /\ lastDelta' = deltaTime
    /\ lastOp' = "tick"
    /\ ticks' = ticks + 1
    /\ UNCHANGED <<loads, initStep, harnessVars>>

DropNext == DropTick

SpecDrop == DropInit /\ [][DropNext]_vars

\* DropTick can be taken exactly when its first two conjuncts hold
DropTickEnabled == game.powerUps # <<>> /\ ticks < MaxDropTicks

\* The playing ticks continue: weak fairness of DropTick, written out with
\* the enabling condition above and with the steps that count a tick, which
\* are the DropTick steps.
LiveDrop == SpecDrop /\ ([]<>(~DropTickEnabled) \/ []<><<ticks' = ticks + 1>>_vars)

\* power-up u (in half pixels) after one more frame of deltaTime
Fallen(u, deltaTime) == [u EXCEPT !.y = u.y + 4, !.lifetime = u.lifetime - deltaTime]

\* power-up u is below the canvas or has used up its 10 s
Expired(u) == u.y > 2 * 600 \/ u.lifetime <= 0

\* power-up u and player p overlap
Touches(u, p) ==
    /\ u.x < 2 * (p.x + p.width) /\ u.x + u.width > 2 * p.x
    /\ u.y < 2 * (p.y + p.height) /\ u.y + u.height > 2 * p.y

\* the effect of a power-up of this type shows in the game
EffectApplied(type, before, after) ==
    CASE type = "shield" -> after.player.hasShield /\ after.player.shieldTime = 10000
      [] type = "multi-shot" -> after.player.hasMultiShot
      [] type = "auto-aim" -> after.player.hasAutoAim /\ after.player.autoAimTime = 12000
      [] type = "rapid-fire" -> after.player.hasRapidFire /\ after.player.rapidFireTime = 8000
      [] type = "life-up" -> after.lives = before.lives + 1

NoEffect(before, after) ==
    /\ after.lives = before.lives
    /\ after.score = before.score
    /\ ~after.player.hasShield /\ ~after.player.hasMultiShot
    /\ ~after.player.hasAutoAim /\ ~after.player.hasRapidFire

\* C28: under continued playing ticks with positive delta-time a spawned
\* power-up is eventually removed from the collection: by pickup, with its
\* effect applied once; by passing the bottom of the canvas; or by its
\* lifetime elapsing, whichever comes first.  While it is in the collection
\* it has time left of its 10 s.
PowerUpEventuallyRemoved ==
    /\ [][lastOp' = "tick" =>
             IF Expired(Fallen(game.powerUps[1], lastDelta'))
             THEN game'.powerUps = <<>> /\ NoEffect(game, game')
             ELSE IF Touches(Fallen(game.powerUps[1], lastDelta'), game'.player)
             THEN /\ game'.powerUps = <<>>
                  /\ EffectApplied(game.powerUps[1].type, game, game')
             ELSE /\ game'.powerUps = <<Fallen(game.powerUps[1], lastDelta')>>
                  /\ game'.powerUps[1].lifetime \in 1..10000
                  /\ NoEffect(game, game')]_vars
    /\ <>(game.powerUps = <<>>)

\* the power-up dropped high at the left is removed, uncollected, by the third
\* frame of 4 s
LifetimeElapsed ==
    /\ lastOp = "tick"
    /\ game.powerUps = <<>>
    /\ ticks = 3
    /\ lastDelta = 4000
    /\ NoEffect(game, game)

----------------------------------------------------------------------------
(* the player moved to and fro along the bottom of the canvas *)

MaxMoveTicks == 4

\* the keys handleInput moves the player by (KeyA and KeyD, and the touch
\* buttons, are read in the same two conditions)
MoveKeys == {"ArrowLeft", "ArrowRight"}

\* where earlier frames have brought the player: the edges, one step from
\* them, and the middle
MoveStarts == {0, PlayerSpeed, FreshPlayer.x,
               CanvasWidth - FreshPlayer.width - PlayerSpeed,
               CanvasWidth - FreshPlayer.width}

MoveInit ==
    /\ \E x \in MoveStarts :
          game = [NewGame EXCEPT
                     !.gameState = "playing",
                     !.player = [FreshPlayer EXCEPT !.x = x],
                     !.enemies = <<NewEnemy(EnemyStartX, EnemyStartY, "basic")>>]
    /\ loads = <<>>
    /\ initStep = "running"
    /\ lastOp = "other"
    /\ ticks = 0
    /\ lastDelta = 0
    /\ WallIdle /\ RectIdle /\ ShieldIdle /\ BoardIdle /\ ShotIdle /\ ClockIdle

\* handleKeyDown for a move key
MoveKeyDown ==
    /\ \E code \in MoveKeys \ game.keys :
          game' = [game EXCEPT !.keys = game.keys \cup {code}]
    /\ lastOp' = "other"
    /\ UNCHANGED <<loads, initStep, ticks, lastDelta, harnessVars>>

\* gameLoop while playing; the enemy does not shoot
MoveTick ==
    /\ game.gameState = "playing"
    /\ ticks < MaxMoveTicks
    /\ \E deltaTime \in DeltaTimes : \E rnd \in Draws(game) :
          /\ rnd.shooters = {}
          /\ game' = gameLoop(game, deltaTime, rnd)
          /\ lastDelta' = deltaTime
    /\ lastOp' = "tick"
    /\ ticks' = ticks + 1
    /\ UNCHANGED <<loads, initStep, harnessVars>>

MoveNext == MoveKeyDown \/ KeyUp \/ MoveTick

SpecMove == MoveInit /\ [][MoveNext]_vars

\* where handleInput of the next tick puts the player before the clamp
Pushed(g) ==
    g.player.x - (IF "ArrowLeft" \in g.keys THEN PlayerSpeed ELSE 0)
               + (IF "ArrowRight" \in g.keys THEN PlayerSpeed ELSE 0)

\* C29: at the end of every tick, and between ticks, the player's x lies in
\* [0, canvasWidth - player.width], whatever move keys are held; a tick puts
\* the player where the keys push it, brought back into that range.
PlayerStaysInCanvas ==
    /\ [](game.player.x \in 0..(CanvasWidth - game.player.width))
    /\ [][lastOp' = "tick" =>
             game'.player.x = Clamp(Pushed(game), 0, CanvasWidth - game.player.width)]_vars

\* a tick with only the left key held and the player already at the left edge
HeldAtLeftEdge ==
    /\ lastOp = "tick"
    /\ game.keys = {"ArrowLeft"}
    /\ game.player.x = 0
    /\ ticks >= 2

----------------------------------------------------------------------------
(* bullets, walls and an enemy in one column *)

MaxHitTicks == 6

\* frames of 0.1 s, in which the wave stands still, and of 1.4 s, each of
\* which is a wave step on level 1
HitDeltaTimes == {100, 1400}

\* Level data as the client installs it, unvalidated: two walls that meet in
\* the middle of the canvas, just above the player, so that the bullet of the
\* centred player overlaps both; one enemy whose fourth wave step brings it
\* over the same column, low enough to overlap the walls' rows.
HitsLevel ==
    [level |-> 1, enemyRows |-> 1, enemyCols |-> 1, enemySpeed |-> 335,
     enemyDropSpeed |-> 440, enemyBulletSpeed |-> 2, enemyMoveDirection |-> -1,
     pointsPerEnemy |-> 30, enemyType |-> "basic",
     walls |-> [given |-> TRUE, count |-> 2, width |-> 400, height |-> 8,
                health |-> 2, yPosition |-> 540]]

\* the level has just been loaded; the player may have kept a multi-shot
HitsInit ==
    /\ \E multi \in BOOLEAN :
          game = [InstallLevel([NewGame EXCEPT !.gameState = "playing"], HitsLevel)
                     EXCEPT !.player.hasMultiShot = multi]
    /\ loads = <<>>
    /\ initStep = "running"
    /\ lastOp = "other"
    /\ ticks = 0
    /\ lastDelta = 0
    /\ WallIdle /\ RectIdle /\ ShieldIdle /\ BoardIdle /\ ShotIdle /\ ClockIdle

\* handleKeyDown for Space while playing: the key is held and the player
\* shoots at once
HitsKeyDown ==
    /\ game.gameState = "playing"
    /\ "Space" \notin game.keys
    /\ game' = playerShoot([game EXCEPT !.keys = game.keys \cup {"Space"}])
    /\ lastOp' = "other"
    /\ UNCHANGED <<loads, initStep, ticks, lastDelta, harnessVars>>

\* gameLoop while playing; no kill drops a power-up; lastOp tells whether the
\* enemy shot in this frame
HitsTick ==
    /\ game.gameState = "playing"
    /\ ticks < MaxHitTicks
    /\ \E deltaTime \in HitDeltaTimes : \E rnd \in Draws(game) :
          /\ \A k \in DOMAIN rnd.drops : rnd.drops[k] = "none"
          /\ game' = gameLoop(game, deltaTime, rnd)
          /\ lastDelta' = deltaTime
          /\ lastOp' = IF rnd.shooters = {} THEN "tick" ELSE "volley"
    /\ ticks' = ticks + 1
    /\ UNCHANGED <<loads, initStep, harnessVars>>

HitsNext == HitsKeyDown \/ KeyUp \/ HitsTick

SpecHits == HitsInit /\ [][HitsNext]_vars

\* the player's bullets that enter the collision phase of the next tick
PlayerBulletsIn(g) == Len(StepBullets(handleInput(g).bullets))

\* the enemy bullets that enter the collision phase of the next tick, the
\* enemy shooting in it or not
EnemyBulletsIn(g, shot) == Len(StepBullets(g.enemyBullets)) + (IF shot THEN 1 ELSE 0)

\* the standing walls of g that are not in h as they were
WallsDamaged(g, h) ==
    Cardinality({w \in DOMAIN g.walls :
                    /\ g.walls[w].active
                    /\ \A v \in DOMAIN h.walls : h.walls[v] # g.walls[w]})

\* the enemies of g that h no longer has
EnemiesDestroyed(g, h) == Len(g.enemies) - Len(h.enemies)

\* the lives the enemy bullets took between g and h
LivesTaken(g, h) == IF EnemiesReachedPlayer(h) THEN 0 ELSE g.lives - h.lives

\* C30: within one tick every wall damaged, every enemy destroyed and every
\* life taken is the work of a bullet of its own, removed by it: a bullet
\* damages at most one wall, a player bullet destroys at most one enemy, a
\* bullet that hit a wall hits neither an enemy nor the player, and each
\* destroyed enemy is destroyed by exactly one bullet and scored once.
OneHitPerBullet ==
    [][lastOp' \in {"tick", "volley"} =>
          /\ WallsDamaged(game, game') + EnemiesDestroyed(game, game')
                 + LivesTaken(game, game')
               <= (PlayerBulletsIn(game) - Len(game'.bullets))
                    + (EnemyBulletsIn(game, lastOp' = "volley") - Len(game'.enemyBullets))
          /\ EnemiesDestroyed(game, game') \in
                 0..(PlayerBulletsIn(game) - Len(game'.bullets))
          /\ LivesTaken(game, game') <=
                 EnemyBulletsIn(game, lastOp' = "volley") - Len(game'.enemyBullets)
          /\ game.walls = <<>> =>
                 PlayerBulletsIn(game) - Len(game'.bullets) = EnemiesDestroyed(game, game')
          /\ game'.score = game.score
                 + EnemiesDestroyed(game, game') * game.levelData.pointsPerEnemy
          /\ game'.enemiesKilled = game.enemiesKilled + EnemiesDestroyed(game, game')]_vars

\* the straight bullet of the centred player overlapped both walls and the
\* enemy above them in the frame just played: the first wall alone is damaged
\* and the enemy lives
FirstWallTookTheBullet ==
    /\ lastOp = "tick"
    /\ lastDelta = 100
    /\ ~game.player.hasMultiShot
    /\ game.player.shootCooldown = BaseShootCooldown - 100
    /\ game.bullets = <<>>
    /\ Len(game.walls) = 2
    /\ game.walls[1].health = 1
    /\ game.walls[2] = NewWall(400, 540, 400, 8, 2)
    /\ Len(game.enemies) = 1
    /\ game.enemies[1].x = 385
    /\ game.enemies[1].y = 520

----------------------------------------------------------------------------
(* the last life and the last enemy *)

\* the level of the walls that meet in the player's column has just been
\* loaded after the levels before it, which have cost the player two lives
\* and may have left a multi-shot
LastLifeInit ==
    /\ \E multi \in BOOLEAN :
          game = [InstallLevel([NewGame EXCEPT !.gameState = "playing"], HitsLevel)
                     EXCEPT !.player.hasMultiShot = multi, !.lives = 1]
    /\ loads = <<>>
    /\ initStep = "running"
    /\ lastOp = "other"
    /\ ticks = 0
    /\ lastDelta = 0
    /\ WallIdle /\ RectIdle /\ ShieldIdle /\ BoardIdle /\ ShotIdle /\ ClockIdle

SpecLastLife == LastLifeInit /\ [][HitsNext]_vars

\* C31: a tick that leaves no life ends in gameOver with the level counter
\* unchanged, whether or not it also destroyed the last enemy: the loss is
\* tested before the win.
LossBeforeWin ==
    [][(lastOp' \in {"tick", "volley"} /\ game'.lives <= 0) =>
           /\ game'.gameState = "gameOver"
           /\ game'.currentLevel = game.currentLevel]_vars

\* the tick in which the enemy's bullet took the last life killed the enemy,
\* the only one, too
LastEnemyAndLastLife ==
    /\ lastOp = "volley"
    /\ game.lives = 0
    /\ game.enemies = <<>>
    /\ game.enemiesKilled = 1
    /\ game.score = 30
    /\ game.gameState = "gameOver"

----------------------------------------------------------------------------
(* pause and resume, with the clock of requestAnimationFrame *)

MaxFrames == 4

\* the time from one frame to the next: 0.1 s and 1.4 s
FrameGaps == {100, 1400}

\* the level of the column of walls is being played
PauseInit ==
    /\ game = InstallLevel([NewGame EXCEPT !.gameState = "playing"], HitsLevel)
    /\ loads = <<>>
    /\ initStep = "running"
    /\ lastOp = "other"
    /\ ticks = 0
    /\ lastDelta = 0
    /\ WallIdle /\ RectIdle /\ ShieldIdle /\ BoardIdle /\ ShotIdle /\ ClockIdle

\* requestAnimationFrame calls gameLoop(currentTime); the enemy does not
\* shoot.  clock counts the frames, those of the current pause and the ticks
\* since the last resume.
ClockFrame ==
    /\ clock.count < MaxFrames
    /\ \E gap \in FrameGaps : \E rnd \in Draws(game) :
          /\ rnd.shooters = {}
          /\ game' = gameLoop(game, LoopDelta(clock.now + gap, clock.lastTime), rnd)
          /\ lastDelta' = LoopDelta(clock.now + gap, clock.lastTime)
          /\ clock' = [clock EXCEPT
                          !.now = clock.now + gap,
                          !.lastTime = LoopLastTime(game, clock.now + gap, clock.lastTime),
                          !.count = clock.count + 1,
                          !.frames = IF game.gameState = "paused"
                                     THEN clock.frames + 1 ELSE clock.frames,
                          !.played = IF game.gameState = "playing"
                                     THEN clock.played + 1 ELSE clock.played]
    /\ lastOp' = IF game.gameState = "playing" THEN "tick" ELSE "frame"
    /\ ticks' = IF game.gameState = "playing" THEN ticks + 1 ELSE ticks
    /\ UNCHANGED <<loads, initStep, wallVars, rectVars, shieldHist, boardVars, shotHist>>

\* togglePause (KeyP, the pause button, the Resume button of the overlay);
\* clock keeps the game as the pause found it
PauseOrResume ==
    /\ game.gameState \in {"playing", "paused"}
    /\ game' = togglePause(game)
    /\ clock' = IF game.gameState = "playing"
                THEN [clock EXCEPT !.saved = <<game>>, !.frames = 0]
                ELSE [clock EXCEPT !.played = 0]
    /\ lastOp' = IF game.gameState = "playing" THEN "pause" ELSE "resume"
    /\ UNCHANGED <<loads, initStep, ticks, lastDelta, wallVars, rectVars, shieldHist,
                   boardVars, shotHist>>

\* the window loses focus while playing (bindEvents, lines 640-644)
PauseOnBlur ==
    /\ game.gameState = "playing"
    /\ game' = pauseGame(game)
    /\ clock' = [clock EXCEPT !.saved = <<game>>, !.frames = 0]
    /\ lastOp' = "pause"
    /\ UNCHANGED <<loads, initStep, ticks, lastDelta, wallVars, rectVars, shieldHist,
                   boardVars, shotHist>>

PauseNext == ClockFrame \/ PauseOrResume \/ PauseOnBlur \/ HitsKeyDown \/ KeyUp

SpecPause == PauseInit /\ [][PauseNext]_vars

\* game g but for its state and for the table of the keys held down
Frozen(g) == [g EXCEPT !.gameState = "playing", !.keys = {}]

----------------------------------------------------------------------------
(* the state machine of the game, on the game specification *)

\* C33: the paused state is entered only from playing, and a game that is in
\* menu, gameOver or levelComplete is not moved by a pause command.
PausedOnlyFromPlaying ==
    [][(game'.gameState = "paused" /\ game.gameState # "paused") =>
           game.gameState = "playing"]_vars

\* C37: the enemies killed and the enemies left add up to the enemies the
\* level started with, and the kills lie between 0 and that total.
EnemyCountsAddUp ==
    /\ game.enemiesKilled + Len(game.enemies) = game.totalEnemies
    /\ game.enemiesKilled \in 0..game.totalEnemies

\* the only enemy of the level has been killed
KilledAndCounted ==
    /\ game.gameState = "levelComplete"
    /\ game.totalEnemies = 1
    /\ game.enemiesKilled = 1
    /\ game.enemies = <<>>

\* a loadLevel called by resetGame is awaiting its data
ResetPending == \E i \in DOMAIN loads : loads[i].from = "reset"

\* C34: no tick runs on enemies that were there before a start or restart:
\* while the load that resetGame has called is pending, a tick finds no enemy
\* to move, to shoot, to hit or to test against the player's row.
NoOldEnemyInNewGame ==
    [][(lastOp' = "tick" /\ ResetPending) => game.enemies = <<>>]_vars

\* C35: levelComplete is entered, and the level counter incremented, only by
\* a tick that kills the last enemy of a non-empty enemy set.
LevelCompleteNeedsKill ==
    [][((game'.gameState = "levelComplete" /\ game.gameState # "levelComplete")
          \/ game'.currentLevel > game.currentLevel) =>
           /\ lastOp' = "tick"
           /\ game.enemies # <<>>
           /\ game'.enemiesKilled > game.enemiesKilled]_vars

\* C36: whenever the game is playing and no level load is in flight, the
\* level data installed is that of the current level.
LevelDataIsCurrent ==
    (game.gameState = "playing" /\ loads = <<>>) =>
        game.levelData.level = game.currentLevel

----------------------------------------------------------------------------
(* level loads that overlap *)

\* the loadLevel calls that may be awaiting their data at the same time
MaxOverlap == 2

MaxLoadTicks == 2

\* level 1 has just been cleared: its only enemy is killed, the overlay
\* offers the next level; AI generation is available
LoadsInit ==
    /\ \E data \in FetchedLevels(1) :
          game = levelComplete(
                     [InstallLevel([NewGame EXCEPT !.gameState = "playing",
                                                   !.aiEnabled = TRUE], data)
                         EXCEPT !.enemies = <<>>, !.enemiesKilled = 1,
                                !.score = data.pointsPerEnemy])
    /\ loads = <<>>
    /\ initStep = "running"
    /\ lastOp = "other"
    /\ ticks = 0
    /\ lastDelta = 0
    /\ WallIdle /\ RectIdle /\ ShieldIdle /\ BoardIdle /\ ShotIdle /\ ClockIdle

\* handleOverlayAction, case 'levelComplete', up to its await: the overlay
\* stays, so the button can be pressed again
NextLevelAction ==
    /\ game.gameState = "levelComplete"
    /\ Len(loads) < MaxOverlap
    /\ loads' = Append(loads, Load(game.currentLevel, "overlay"))
    /\ lastOp' = "other"
    /\ UNCHANGED <<game, initStep, ticks, lastDelta, harnessVars>>

\* handleKeyDown, case 'KeyR': restartGame in any state
RestartKey ==
    /\ Len(loads) < MaxOverlap
    /\ game' = restartGame(game)
    /\ loads' = Append(loads, Load(1, "reset"))
    /\ lastOp' = "other"
    /\ UNCHANGED <<initStep, ticks, lastDelta, harnessVars>>

\* toggleAIGeneration: the level is loaded again while playing or paused
AIToggleReload ==
    /\ game.gameState \in {"playing", "paused"}
    /\ Len(loads) < MaxOverlap
    /\ game' = [game EXCEPT !.useAIGeneration = ~game.useAIGeneration]
    /\ loads' = Append(loads, Load(game.currentLevel, "toggle"))
    /\ lastOp' = "other"
    /\ UNCHANGED <<initStep, ticks, lastDelta, harnessVars>>

\* gameLoop while playing
LoadsTick ==
    /\ game.gameState = "playing"
    /\ ticks < MaxLoadTicks
    /\ \E deltaTime \in DeltaTimes : \E rnd \in Draws(game) :
          /\ game' = gameLoop(game, deltaTime, rnd)
          /\ lastDelta' = deltaTime
    /\ lastOp' = "tick"
    /\ ticks' = ticks + 1
    /\ UNCHANGED <<loads, initStep, harnessVars>>

LoadsNext ==
    NextLevelAction \/ RestartKey \/ AIToggleReload \/ LoadComplete \/ TogglePause
        \/ LoadsTick

SpecLoads == LoadsInit /\ [][LoadsNext]_vars

----------------------------------------------------------------------------
(* an unopposed wave *)

MaxInvadeTicks == 20

\* frames of half a wave interval and of a whole one
InvadeDeltaTimes == {700, 1400}

InvadeSpeeds == {335}
InvadeDropSpeeds == {250, 440}

\* level data with one enemy, walls clear of the player's column, and enemy
\* bullets that cross the canvas in three frames
InvadeLevel(speed, dropSpeed, direction) ==
    [level |-> 1, enemyRows |-> 1, enemyCols |-> 1, enemySpeed |-> speed,
     enemyDropSpeed |-> dropSpeed, enemyBulletSpeed |-> 200,
     enemyMoveDirection |-> direction,
     pointsPerEnemy |-> 30, enemyType |-> "basic",
     walls |-> [given |-> TRUE, count |-> 2, width |-> 80, height |-> 60,
                health |-> 10, yPosition |-> 450]]

\* the level has just been loaded and the game is being played
InvadeInit ==
    /\ \E speed \in InvadeSpeeds : \E dropSpeed \in InvadeDropSpeeds :
       \E direction \in {-1, 1} :
          game = InstallLevel([NewGame EXCEPT !.gameState = "playing"],
                              InvadeLevel(speed, dropSpeed, direction))
    /\ loads = <<>>
    /\ initStep = "running"
    /\ lastOp = "other"
    /\ ticks = 0
    /\ lastDelta = 0
    /\ WallIdle /\ RectIdle /\ ShieldIdle /\ BoardIdle /\ ShotIdle /\ ClockIdle

\* gameLoop while playing; no key is pressed, so the player never shoots; the
\* enemy shoots or not; no enemy is destroyed, so no power-up drops
InvadeTick ==
    /\ game.gameState = "playing"
    /\ ticks < MaxInvadeTicks
    /\ \E deltaTime \in InvadeDeltaTimes : \E rnd \in Draws(game) :
          /\ game' = gameLoop(game, deltaTime, rnd)
          /\ lastDelta' = deltaTime
    /\ lastOp' = "tick"
    /\ ticks' = ticks + 1
    /\ UNCHANGED <<loads, initStep, harnessVars>>

InvadeNext == InvadeTick

SpecInvade == InvadeInit /\ [][InvadeNext]_vars

\* InvadeTick can be taken exactly when its first two conjuncts hold
InvadeTickEnabled == game.gameState = "playing" /\ ticks < MaxInvadeTicks

\* The animation frames continue while the game is played: weak fairness of
\* InvadeTick, written out with its enabling condition and with the steps
\* that count a tick, which are the InvadeTick steps.
LiveInvade ==
    SpecInvade /\ ([]<>(~InvadeTickEnabled) \/ []<><<ticks' = ticks + 1>>_vars)

\* C38: while the game is played with ticks of positive delta-time, enemy
\* speed > 0 and drop speed > 0 and no enemy is destroyed, every wave step is
\* a horizontal run or, at the edge, a drop followed by a run the other way,
\* and the game eventually reaches gameOver.
UnopposedWaveLands ==
    /\ [](game.enemiesKilled = 0 /\ Len(game.enemies) = game.totalEnemies)
    /\ [][(lastOp' = "tick"
             /\ WaveDue(game.enemyMoveTimer + lastDelta', game.enemyMoveInterval)) =>
            \A i \in DOMAIN game.enemies :
               IF HitEdge(game)
               THEN /\ game'.enemies[i].y = game.enemies[i].y + game.enemies[i].dropSpeed
                    /\ game'.enemies[i].x = game.enemies[i].x
                    /\ game'.enemyDirection = -game.enemyDirection
                    /\ ~HitEdge(game')
               ELSE /\ game'.enemies[i].x =
                          game.enemies[i].x + game.enemies[i].speed * game.enemyDirection
                    /\ game'.enemies[i].y = game.enemies[i].y
                    /\ game'.enemyDirection = game.enemyDirection]_vars
    /\ <>(game.gameState = "gameOver")

\* the enemy has run to the right edge, dropped by 250 px, run to the left
\* edge and dropped again into the player's row, with frames of half a wave
\* interval among the ticks
LandedAfterTwoDrops ==
    /\ game.gameState = "gameOver"
    /\ game.enemies[1].y = EnemyStartY + 2 * 250
    /\ EnemiesReachedPlayer(game)
    /\ game.enemyDirection = 1 /\ game.enemies[1].x <= 0
    /\ ticks > 10

----------------------------------------------------------------------------
(* bullets and the holes of a wall *)

\* the player's bullets as the collision phase of the next tick finds them
PlayerBulletsAtWalls(g) == StepBullets(handleInput(g).bullets)

\* the enemy bullets as the collision phase of the next tick finds them, the
\* enemy shooting in it or not
EnemyBulletsAtWalls(g, deltaTime, shot) ==
    StepBullets(updateEnemies(handleInput(g), deltaTime,
                              IF shot THEN {1} ELSE {}).enemyBullets)

\* the walls that pass the filter of line 1016
Standing(ws) == SelectSeq(ws, LAMBDA w : w.active)

\* bullet b overlaps the bounding box of a standing wall
OverWall(b, ws) == \E w \in DOMAIN ws : ws[w].active /\ EntityCollides(b, ws[w])

\* no standing wall under bullet b has an alive block within the impact radius
InHole(b, ws) ==
    \A w \in DOMAIN ws :
        (ws[w].active /\ EntityCollides(b, ws[w])) =>
            \A k \in DOMAIN ws[w].blocks :
                ws[w].blocks[k].active =>
                    ~BlockInRadius(ws[w].blocks[k],
                                   b.x + b.width \div 2 - ws[w].x,
                                   b.y + b.height \div 2 - ws[w].y,
                                   IF b.isPlayerBullet THEN PlayerImpactRadius
                                   ELSE EnemyImpactRadius)

\* C39: a bullet that overlaps the bounding box of an active wall is removed
\* in that tick and goes no further, also when no alive block lies within its
\* impact radius (6 for a player bullet, 8 for an enemy bullet); in that case
\* the walls keep their health and their blocks.
HolesStopBullets ==
    [][lastOp' \in {"tick", "volley"} =>
          /\ (/\ Len(PlayerBulletsAtWalls(game)) = 1
              /\ EnemyBulletsAtWalls(game, lastDelta', lastOp' = "volley") = <<>>
              /\ OverWall(PlayerBulletsAtWalls(game)[1], game.walls)) =>
                 /\ game'.bullets = <<>>
                 /\ game'.enemies = updateEnemies(game, lastDelta', {}).enemies
                 /\ InHole(PlayerBulletsAtWalls(game)[1], game.walls) =>
                       game'.walls = Standing(game.walls)
          /\ (/\ PlayerBulletsAtWalls(game) = <<>>
              /\ Len(EnemyBulletsAtWalls(game, lastDelta', lastOp' = "volley")) = 1
              /\ OverWall(EnemyBulletsAtWalls(game, lastDelta', lastOp' = "volley")[1],
                          Standing(game.walls))) =>
                 /\ game'.enemyBullets = <<>>
                 /\ ~EnemiesReachedPlayer(game') => game'.lives = game.lives
                 /\ InHole(EnemyBulletsAtWalls(game, lastDelta', lastOp' = "volley")[1],
                           Standing(game.walls)) =>
                       game'.walls = Standing(game.walls)]_vars

\* two bullets have hit the first wall at the same spot: the first took one of
\* its two health points and the blocks around the impact, the second fell
\* into the hole and was removed without damage; the second wall is untouched
SecondBulletFellInHole ==
    /\ lastOp \in {"tick", "volley"}
    /\ Len(game.walls) = 2
    /\ game.walls[1].active /\ game.walls[1].health = 1
    /\ game.walls[2] = NewWall(game.walls[2].x, game.walls[2].y, 400, 8, 2)
    /\ Len(game.particles) = 6
    /\ game.bullets = <<>> /\ game.enemyBullets = <<>>
    /\ game.enemies # <<>>

====
